---- MODULE Spec2Model ----
(***************************************************************************)
(* A model of the VRFaceTracking daemon (vrft_d): the producer / consumer  *)
(* pipeline of app/src/main.rs, the OSC parameter layer of                 *)
(* app/src/osc/parameters, the VRChat backend of app/src/osc/vrchat.rs,    *)
(* the calibration state machine of common/src/mutator.rs, the OSCQuery    *)
(* discovery service, the Virtual Desktop module, the module proxy, the    *)
(* signal steps of mutate, the calibration store on its way to the file    *)
(* and the locks shared by the consumer and the control surface.           *)
(*                                                                         *)
(* Each subsystem has its own specification (SpecPipe, SpecReg, SpecOsc,   *)
(* SpecCal, SpecCtl, SpecDisc, SpecParam, SpecRun, SpecSock, SpecVd,       *)
(* SpecPx, SpecStat, SpecMut, SpecAd, SpecSan, SpecOrd, SpecLock) over the *)
(* module's variables; a specification leaves the variables of the other   *)
(* subsystems at their initial values.  SpecCtlFair is SpecCtl with the    *)
(* consumer's loop running for ever.                                       *)
(***************************************************************************)
EXTENDS Integers, Sequences, FiniteSets, TLC

VARIABLES
    \* ---- producer / consumer pipeline (main.rs) ----
    chan,        \* sync_channel::<UnifiedTrackingData>(1): the queued frames
    ppc,         \* producer position in its loop body
    ptick,       \* number of producer ticks started so far
    data,        \* the producer's frame `data` (main.rs:262)
    any_updated, \* the producer's flag of the current tick
    llSocket,    \* LiveLinkModule.socket is Some
    llHasLast,   \* LiveLinkModule.last_update_time is Some
    wroteNew,    \* observation: the adapter wrote new data on this tick
    offer,       \* observation: the last try_send of the producer
    cpc,         \* consumer position: an index into ConsumerOrder
    received_data, \* the consumer's frame of the current tick
    recvInfo,    \* observation: what the last recv_timeout returned
    shared_data, \* Arc<RwLock<UnifiedTrackingData>>: the published snapshot
    lastSent,    \* observation: the frame last handed to transport_manager.send
    \* ---- parameter registry (osc/parameters) ----
    parameters,  \* ParameterRegistry.parameters: id -> parameter state
    regSnap,     \* observation: the snapshot of the last reset
    regOut,      \* observation: the messages of the last process call
    procRun,     \* observation: process calls since the last reset (<= 2)
    curFrame,    \* observation: the frame of the last process call
    prevFrame,   \* observation: the frame of the process call before it
    regPre,      \* observation: the parameters as the last process found them
    resetOverCache, \* observation: the last reset met a non-empty delta cache
    \* ---- VRChat backend (osc/vrchat.rs) ----
    allowed_parameters, \* VRChatOsc.allowed_parameters: Option<HashSet<String>>
    query_rx,    \* the updates the discovery service sent and send has not drained
    oscOut,      \* observation: the addresses of the last send's messages
    installed,   \* observation: the snapshot send installed last, if any
    \* ---- calibration (common/src/mutator.rs, calibration*.rs, main.rs) ----
    config,             \* mutator.enabled, calibration.enabled, calibration.continuous
    calibration_state,  \* UnifiedTrackingMutator.calibration_state
    shapes,             \* calibration_manager.data.shapes: shape -> parameter
    current_profile_id, \* calibration_manager.current_profile_id
    profiles,           \* the profile files of storage_dir: id -> stored data
    calibration_request, \* Arc<RwLock<Option<f32>>> of main.rs:258
    calibration_status, \* the published CalibrationStatus.is_calibrating
    was_calibrating,    \* the consumer's local of main.rs:343
    calpc,              \* consumer position: "request" or "mutate"
    entered,            \* observation: this tick's request entered Collecting
    mutPre,             \* observation: the Collecting state the last mutate found, and its dt
    loadedOld,          \* observation: old statistics were loaded since the latest entry
    posted,             \* observation: the payload of the request now in the cell
    taken,              \* observation: what this tick's request step found
    lastPost,           \* observation: the latest POST, until the consumer's next step
    \* ---- discovery service (osc/query/service.rs) ----
    current_url,        \* Arc<Mutex<Option<String>>> of service.rs:67
    last_fetch_time,    \* the listener's local, as the milliseconds elapsed since it
    fetches,            \* the running fetch threads: the i of each thread's loop
    lastNotif,          \* observation: what the listener did with the latest notification
    lastFetch,          \* observation: how the fetch thread that ended last ended
    removed,            \* observation: the service was removed and no fetch has succeeded since
    \* ---- functions applied to inputs ----
    fnIn,               \* the function and its arguments
    fnOut,              \* its result, once it has been applied
    \* ---- cancellation ----
    running,            \* the AtomicBool of main.rs:102
    loopAt,             \* loop -> "head" | "body" | "done"
    exited,             \* main has returned: the process is gone
    afterClear,         \* observation: iterations a loop began with the flag clear
    \* ---- the backend's sending socket ----
    oscSocket,          \* VRChatOsc.socket: None or Some(number of the bound socket)
    sockNew,            \* sockets bound so far
    sendResult,         \* how the latest send ended: "none" | "ok" | "bind_err" | "send_err"
    sentOn,             \* observation: the socket the latest send called send_to on
    failedSocks,        \* observation: the sockets a send_to has failed on
    \* ---- the Virtual Desktop adapter ----
    vdConnected,        \* is_connected(): mapping, view and event are open
    vdPeer,             \* the streamer's mapping and event exist
    vdSince,            \* seconds since last_valid_frame_time
    vdResult,           \* how the latest update ended
    vdTeardowns,        \* observation: disconnects made by update
    vdBegan,            \* observation: was the adapter connected when the latest update began
    \* ---- the proxy adapter and its host process ----
    pxChild,            \* ProxyModule.child: "none" | "running" | "exited"
    pxShmem,            \* shmem_ptr is Some
    pxBeat,             \* runtime_heartbeat differs from last_runtime_heartbeat
    pxStale,            \* seconds since last_runtime_update
    pxSpawns,           \* children spawned so far
    pxObs,              \* observation: what the latest update found and did
    \* ---- one calibration parameter with all its statistics ----
    statP,              \* the CalibrationParameter: buffer, indices, current_step, max
    statS,              \* its progress, mean, std_dev, confidence and max_confidence
    statIn,             \* observation: the latest operation and its arguments
    \* ---- the signals of one frame through UnifiedTrackingMutator::mutate ----
    shapeFilter,        \* shapes[i]: the EuroFilter of one expression weight
    opennessFilter,     \* openness_left: the EuroFilter of one eye openness
    pupilFilter,        \* pupil_left, pupil_right: eye -> EuroFilter
    min_pupil,          \* min_pupil_l, min_pupil_r: eye -> smallest positive diameter
    max_pupil,          \* max_pupil_l, max_pupil_r: eye -> largest positive diameter
    hasData,            \* the weight's parameter has confidence or max other than 0
    mutIn,              \* observation: the frame the latest mutate was given
    mutOut,             \* observation: the frame the latest mutate left behind
    mutObs,             \* observation: what the steps of the latest mutate were given
    \* ---- eye.min_dilation and eye.max_dilation of the producer's frame ----
    adapter,            \* the active module: "livelink" | "vd" | "proxy" | "dotnet"
    dilation,           \* data.eye.min_dilation and data.eye.max_dilation
    hostDilation,       \* eye_min_dilation, eye_max_dilation of the marshaled frame
    adObs,              \* observation: the latest update and the dilation it found
    \* ---- one record of the calibration store on its way to the file ----
    sanIn,              \* a CalibrationParameter of CalibrationManager.data
    sanOut,             \* observation: its record in the file written last
    \* ---- the fetch threads of discovery and the order of what they deliver ----
    urlSet,             \* current_url of the discovery service is Some
    fetchThreads,       \* running fetch threads: [id, attempts], in start order
    fetchesStarted,     \* how many fetch threads have been spawned so far
    update_tx,          \* the updates sent to the backend and not yet received
    installLog,         \* every update the backend has installed, in order
    \* ---- the read/write locks shared by the consumer and the control surface ----
    guards,             \* thread -> the lock guards it holds: [lock, mode]
    todo                \* thread -> the lock operations left of its tick or call

pipeVars == <<chan, ppc, ptick, data, any_updated, llSocket, llHasLast,
              wroteNew, offer, cpc, received_data, recvInfo, shared_data,
              lastSent>>

regVars == <<parameters, regSnap, regOut, procRun, curFrame, prevFrame,
             regPre, resetOverCache>>

oscVars == <<allowed_parameters, query_rx, oscOut, installed>>

calVars == <<config, calibration_state, shapes, current_profile_id, profiles,
             calibration_request, calibration_status, was_calibrating, calpc,
             entered, mutPre, loadedOld, posted, taken, lastPost>>

discVars == <<current_url, last_fetch_time, fetches, lastNotif, lastFetch,
              removed>>

fnVars == <<fnIn, fnOut>>

runVars == <<running, loopAt, exited, afterClear>>

sockVars == <<oscSocket, sockNew, sendResult, sentOn, failedSocks>>

vdVars == <<vdConnected, vdPeer, vdSince, vdResult, vdTeardowns, vdBegan>>

pxVars == <<pxChild, pxShmem, pxBeat, pxStale, pxSpawns, pxObs>>

statVars == <<statP, statS, statIn>>

mutVars == <<shapeFilter, opennessFilter, pupilFilter, min_pupil, max_pupil,
             hasData, mutIn, mutOut, mutObs>>

adVars == <<adapter, dilation, hostDilation, adObs>>

sanVars == <<sanIn, sanOut>>

ordVars == <<urlSet, fetchThreads, fetchesStarted, update_tx, installLog>>

lockVars == <<guards, todo>>

moreVars == <<mutVars, adVars, sanVars, lockVars, ordVars>>

sideVars == <<runVars, sockVars, vdVars, pxVars, statVars, moreVars>>

coreVars == <<pipeVars, regVars, oscVars, calVars, discVars, fnVars>>

\* Everything but one of the groups above.
exceptRun == <<coreVars, sockVars, vdVars, pxVars, statVars, moreVars>>

exceptSock == <<pipeVars, regVars, calVars, discVars, fnVars, runVars, vdVars,
                pxVars, statVars, moreVars>>

exceptVd == <<coreVars, runVars, sockVars, pxVars, statVars, moreVars>>

exceptPx == <<coreVars, runVars, sockVars, vdVars, statVars, moreVars>>

exceptStat == <<coreVars, runVars, sockVars, vdVars, pxVars, moreVars>>

firstVars == <<coreVars, runVars, sockVars, vdVars, pxVars, statVars>>

exceptMut == <<firstVars, adVars, sanVars, lockVars, ordVars>>

exceptAd == <<firstVars, mutVars, sanVars, lockVars, ordVars>>

exceptSan == <<firstVars, mutVars, adVars, lockVars, ordVars>>

exceptLock == <<firstVars, mutVars, adVars, sanVars, ordVars>>

exceptOrd == <<firstVars, mutVars, adVars, sanVars, lockVars>>

vars == <<pipeVars, regVars, oscVars, calVars, discVars, fnVars, sideVars>>

-----------------------------------------------------------------------------
(***************************************************************************)
(* Bounds of the model.                                                    *)
(***************************************************************************)
\* Producer ticks explored (each successful tick clones one frame).
MaxTicks == 4

\* Discovery updates that may wait in the backend's channel (the channel of
\* vrchat.rs:28 is unbounded).
MaxPending == 2

\* Iterations begun after the flag was cleared are counted up to this.
MaxAfter == 2

\* Sockets the backend binds in one run.
MaxSockets == 3

\* Disconnects of the Virtual Desktop adapter in one run.
MaxTeardowns == 3

\* Host processes the proxy adapter spawns in one run.
MaxSpawns == 3

-----------------------------------------------------------------------------
(***************************************************************************)
(* Producer / consumer pipeline: app/src/main.rs                           *)
(***************************************************************************)

\* sync_channel::<UnifiedTrackingData>(1)
ChannelCapacity == 1

None == [none |-> TRUE]

\* A frame is identified by the producer tick that cloned it (seq); seq 0 is
\* a default-constructed frame.  `fresh` records whether the adapter wrote it
\* on the tick that cloned it, `mutated` whether mutator.mutate has run on it.
Frame(seq, fresh, open) ==
    [seq |-> seq, fresh |-> fresh, openness |-> open, mutated |-> FALSE]

\* UnifiedTrackingData::default()
DefaultFrame == Frame(0, FALSE, 0)

\* recv_timeout's fallback: a default frame with both eye openness 1.0
TimeoutFrame == Frame(0, FALSE, 1)

\* A channel that makes room by evicting the queued frame.
TrySendEvictOldest(q, f) ==
    IF Len(q) < ChannelCapacity THEN Append(q, f) ELSE Append(Tail(q), f)

\* SyncSender::try_send: refuses with Full, without blocking, unless the buffer
\* has room; the refused value is the one offered.
TrySend(q, f) == IF Len(q) < ChannelCapacity THEN Append(q, f) ELSE q

\* LiveLinkModule::update: (ok, wrote) for the three paths of the function.
\*   tooSoon: last_update_time is Some and elapsed < MIN_FRAME_DURATION
\*   pkt:     recv_from yielded at least one packet that parsed
LiveLinkUpdate(socket, hasLast, tooSoon, pkt) ==
    IF hasLast /\ tooSoon THEN [ok |-> TRUE, wrote |-> FALSE]
    ELSE IF socket THEN [ok |-> TRUE, wrote |-> pkt]
    ELSE [ok |-> FALSE, wrote |-> FALSE]

\* The statements of one consumer iteration, in program order.
ConsumerOrderPublishFirst ==
    <<"recv", "overrides", "calreq", "publish", "mutate", "status", "send",
      "housekeeping">>

ConsumerOrder ==
    <<"recv", "overrides", "calreq", "mutate", "status", "publish", "send",
      "housekeeping">>

CStep == ConsumerOrder[cpc]

CAdvance == cpc' = IF cpc = Len(ConsumerOrder) THEN 1 ELSE cpc + 1

PipeStart ==
    /\ chan = <<>>
    /\ ppc = "update"
    /\ ptick = 0
    /\ data = DefaultFrame
    /\ any_updated = FALSE
    /\ llSocket \in BOOLEAN
    /\ llHasLast = FALSE
    /\ wroteNew = FALSE
    /\ offer = None
    /\ cpc = 1
    /\ received_data = DefaultFrame
    /\ recvInfo = None
    /\ shared_data = DefaultFrame
    /\ lastSent = None

\* main.rs:532-544: one call of the active module's update on `data`.
ProducerUpdate ==
    /\ ppc = "update"
    /\ ptick < MaxTicks
    /\ \E tooSoon \in BOOLEAN, pkt \in BOOLEAN :
         LET r == LiveLinkUpdate(llSocket, llHasLast, tooSoon, pkt) IN
         /\ any_updated' = r.ok
         /\ wroteNew' = r.wrote
         /\ llHasLast' = (llHasLast \/ r.wrote)
         /\ data' = IF r.wrote THEN Frame(ptick + 1, TRUE, 1)
                    ELSE [data EXCEPT !.fresh = FALSE]
         /\ ppc' = IF r.ok THEN "send" ELSE "sleep"
    /\ ptick' = ptick + 1
    /\ UNCHANGED <<chan, llSocket, offer, cpc, received_data, recvInfo,
                   shared_data, lastSent>>
    /\ UNCHANGED <<regVars, oscVars, calVars, discVars, fnVars, sideVars>>

\* A producer that hands the frame over with the blocking SyncSender::send.
ProducerBlockingSend ==
    /\ ppc = "send"
    /\ Len(chan) < ChannelCapacity
    /\ chan' = Append(chan, data)
    /\ offer' = [none |-> FALSE, frame |-> data, full |-> FALSE,
                 queued |-> chan]
    /\ ppc' = "pace"
    /\ UNCHANGED <<ptick, data, any_updated, llSocket, llHasLast, wroteNew,
                   cpc, received_data, recvInfo, shared_data, lastSent>>
    /\ UNCHANGED <<regVars, oscVars, calVars, discVars, fnVars, sideVars>>

\* main.rs:567-568: let _ = tx.try_send(data.clone());
ProducerTrySend ==
    /\ ppc = "send"
    /\ chan' = TrySend(chan, data)
    /\ offer' = [none |-> FALSE, frame |-> data, full |-> Len(chan) > 0,
                 queued |-> chan]
    /\ ppc' = "pace"
    /\ UNCHANGED <<ptick, data, any_updated, llSocket, llHasLast, wroteNew,
                   cpc, received_data, recvInfo, shared_data, lastSent>>
    /\ UNCHANGED <<regVars, oscVars, calVars, discVars, fnVars, sideVars>>

\* A loop that starts every tick on a new default frame.
ProducerSleepFreshFrame ==
    /\ ppc \in {"pace", "sleep"}
    /\ ppc' = "update"
    /\ data' = DefaultFrame
    /\ UNCHANGED <<chan, ptick, any_updated, llSocket, llHasLast,
                   wroteNew, offer, cpc, received_data, recvInfo, shared_data,
                   lastSent>>
    /\ UNCHANGED <<regVars, oscVars, calVars, discVars, fnVars, sideVars>>

\* main.rs:570-598: frame pacing after a send, or the 5 ms sleep without one.
ProducerSleep ==
    /\ ppc \in {"pace", "sleep"}
    /\ ppc' = "update"
    /\ UNCHANGED <<chan, ptick, data, any_updated, llSocket, llHasLast,
                   wroteNew, offer, cpc, received_data, recvInfo, shared_data,
                   lastSent>>
    /\ UNCHANGED <<regVars, oscVars, calVars, discVars, fnVars, sideVars>>

\* main.rs:346-353: rx.recv_timeout(100 ms), a queued frame ...
ConsumerRecv ==
    /\ CStep = "recv"
    /\ Len(chan) > 0
    /\ received_data' = Head(chan)
    /\ chan' = Tail(chan)
    /\ recvInfo' = [none |-> FALSE, frame |-> Head(chan), timeout |-> FALSE,
                    offer |-> offer]
    /\ CAdvance
    /\ UNCHANGED <<ppc, ptick, data, any_updated, llSocket, llHasLast,
                   wroteNew, offer, shared_data, lastSent>>
    /\ UNCHANGED <<regVars, oscVars, calVars, discVars, fnVars, sideVars>>

\* A timeout that starts the iteration over instead of going on.
ConsumerRecvTimeoutSkipsTick ==
    /\ CStep = "recv"
    /\ Len(chan) = 0
    /\ received_data' = TimeoutFrame
    /\ recvInfo' = [none |-> FALSE, frame |-> TimeoutFrame, timeout |-> TRUE,
                    offer |-> offer]
    /\ UNCHANGED <<chan, ppc, ptick, data, any_updated, llSocket, llHasLast,
                   wroteNew, offer, cpc, shared_data, lastSent>>
    /\ UNCHANGED <<regVars, oscVars, calVars, discVars, fnVars, sideVars>>

\* ... or the timeout, which synthesises a default frame with open eyes.
ConsumerRecvTimeout ==
    /\ CStep = "recv"
    /\ Len(chan) = 0
    /\ received_data' = TimeoutFrame
    /\ recvInfo' = [none |-> FALSE, frame |-> TimeoutFrame, timeout |-> TRUE,
                    offer |-> offer]
    /\ CAdvance
    /\ UNCHANGED <<chan, ppc, ptick, data, any_updated, llSocket, llHasLast,
                   wroteNew, offer, shared_data, lastSent>>
    /\ UNCHANGED <<regVars, oscVars, calVars, discVars, fnVars, sideVars>>

\* main.rs:452: mutator.mutate(&mut received_data, dt);
ConsumerMutate ==
    /\ CStep = "mutate"
    /\ received_data' = [received_data EXCEPT !.mutated = TRUE]
    /\ CAdvance
    /\ UNCHANGED <<chan, ppc, ptick, data, any_updated, llSocket, llHasLast,
                   wroteNew, offer, recvInfo, shared_data, lastSent>>
    /\ UNCHANGED <<regVars, oscVars, calVars, discVars, fnVars, sideVars>>

\* main.rs:480-482: *write_guard = received_data.clone();
ConsumerPublish ==
    /\ CStep = "publish"
    /\ shared_data' = received_data
    /\ CAdvance
    /\ UNCHANGED <<chan, ppc, ptick, data, any_updated, llSocket, llHasLast,
                   wroteNew, offer, received_data, recvInfo, lastSent>>
    /\ UNCHANGED <<regVars, oscVars, calVars, discVars, fnVars, sideVars>>

\* main.rs:484-486: transport_manager.send(&received_data)
ConsumerSend ==
    /\ CStep = "send"
    /\ lastSent' = received_data
    /\ CAdvance
    /\ UNCHANGED <<chan, ppc, ptick, data, any_updated, llSocket, llHasLast,
                   wroteNew, offer, received_data, recvInfo, shared_data>>
    /\ UNCHANGED <<regVars, oscVars, calVars, discVars, fnVars, sideVars>>

\* The statements of the iteration that touch neither the frame's identity,
\* the channel nor the snapshot (overrides, request cell, status, auto-save).
ConsumerLocal ==
    /\ CStep \in {"overrides", "calreq", "status", "housekeeping"}
    /\ CAdvance
    /\ UNCHANGED <<chan, ppc, ptick, data, any_updated, llSocket, llHasLast,
                   wroteNew, offer, received_data, recvInfo, shared_data,
                   lastSent>>
    /\ UNCHANGED <<regVars, oscVars, calVars, discVars, fnVars, sideVars>>

-----------------------------------------------------------------------------
(***************************************************************************)
(* Strings.  An address is a sequence of one-character strings, so that    *)
(* prefix, suffix and byte tests are computed as the code computes them.   *)
(***************************************************************************)

StartsWith(s, p) == Len(p) <= Len(s) /\ SubSeq(s, 1, Len(p)) = p

EndsWith(s, p) ==
    Len(p) <= Len(s) /\ SubSeq(s, Len(s) - Len(p) + 1, Len(s)) = p

Contains(s, p) ==
    \E i \in 1..(Len(s) - Len(p) + 1) : SubSeq(s, i, i + Len(p) - 1) = p

\* s with its first n characters removed
Skip(s, n) == SubSeq(s, n + 1, Len(s))

AsciiDigits == <<"0", "1", "2", "3", "4", "5", "6", "7", "8", "9">>

IsAsciiDigit(c) == \E i \in 1..Len(AsciiDigits) : AsciiDigits[i] = c

DigitValue(c) == (CHOOSE i \in 1..Len(AsciiDigits) : AsciiDigits[i] = c) - 1

\* The largest integer of the model checker.  u32 reaches 2^32 - 1; the model
\* parses numbers up to IntMax and takes a longer digit string for an
\* overflow, so the one bit address it does not cover is the one of N = 2^31.
IntMax == (2^30 - 1) + 2^30

RECURSIVE ParseDigits(_, _)
ParseDigits(s, acc) ==
    IF s = <<>> THEN acc
    ELSE IF ~IsAsciiDigit(Head(s)) THEN -1
    ELSE LET d == DigitValue(Head(s)) IN
         IF acc > (IntMax - d) \div 10 THEN -1
         ELSE ParseDigits(Tail(s), acc * 10 + d)

\* str::parse::<u32>: decimal digits after an optional '+'; -1 stands for Err.
ParseU32(s) ==
    IF s = <<>> THEN -1
    ELSE IF Head(s) = "+"
         THEN IF Len(s) = 1 THEN -1 ELSE ParseDigits(Tail(s), 0)
         ELSE ParseDigits(s, 0)

-----------------------------------------------------------------------------
(***************************************************************************)
(* Parameter layer: app/src/osc/parameters                                 *)
(***************************************************************************)

DEFAULT_PREFIX ==
    <<"/", "a", "v", "a", "t", "a", "r", "/",
      "p", "a", "r", "a", "m", "e", "t", "e", "r", "s", "/">>

\* "FT/"
FT_PREFIX == <<"F", "T", "/">>

\* "/FT/"
FT_SEGMENT == <<"/", "F", "T", "/">>

\* "Negative"
NEGATIVE == <<"N", "e", "g", "a", "t", "i", "v", "e">>

\* f32 values are counted in steps of a quarter of the delta threshold:
\* 0.00001 is EPSILON steps, 1.0 is UNIT steps.
EPSILON == 4

UNIT == 100000 * EPSILON

Abs(x) == IF x < 0 THEN -x ELSE x

Some(x) == [none |-> FALSE, v |-> x]

\* base_param.rs:18-50
matches_address(name, addr) ==
    IF ~StartsWith(addr, DEFAULT_PREFIX) THEN FALSE
    ELSE LET stripped == Skip(addr, Len(DEFAULT_PREFIX))
             suffix == <<"/">> \o name
             prefix_len == Len(stripped) - Len(suffix)
         IN  IF stripped = name THEN TRUE
             ELSE IF EndsWith(stripped, suffix)
                  THEN ~(/\ prefix_len >= 2
                         /\ IsAsciiDigit(stripped[prefix_len])
                         /\ stripped[prefix_len - 1] = "v")
                  ELSE FALSE

\* binary_param.rs:12-21; -1 stands for None.
get_binary_steps(index) ==
    IF \E i \in 0..30 : 2^i = index
    THEN CHOOSE i \in 0..30 : 2^i = index
    ELSE -1

\* binary_param.rs:53-64; -1 stands for None.
matches_binary_pattern(name, addr) ==
    IF ~StartsWith(addr, DEFAULT_PREFIX) THEN -1
    ELSE LET stripped == Skip(addr, Len(DEFAULT_PREFIX))
             after_prefix == IF StartsWith(stripped, FT_PREFIX)
                             THEN Skip(stripped, Len(FT_PREFIX))
                             ELSE stripped
         IN  IF ~StartsWith(after_prefix, name) THEN -1
             ELSE ParseU32(Skip(after_prefix, Len(name)))

\* is_none_or(|t| *t == kind) / is_some_and(|t| *t == kind) on param_types
TypeIsNoneOr(snap, addr, kind) ==
    addr \notin DOMAIN snap.param_types \/ snap.param_types[addr] = kind

TypeIsSomeAnd(snap, addr, kind) ==
    addr \in DOMAIN snap.param_types /\ snap.param_types[addr] = kind

\* The closures handed to the constructors.  A frame d carries one signal
\* d.x; "weight" reads it, "below" compares it with a threshold (EParam's
\* bool getter), "whole" takes its integer part (an Int parameter).
GetValue(get_value, d) ==
    CASE get_value.f = "weight" -> d.x
      [] get_value.f = "below"  -> d.x < get_value.threshold
      [] get_value.f = "whole"  -> d.x \div UNIT

\* FloatParam / BoolParam / IntParam: new and new_with_send_on_load.  The
\* three types differ in `kind` (the ParamType they accept) and in how two
\* values are compared.
ScalarNew(kind, name, get_value, send_on_load) ==
    [kind |-> kind,
     name |-> name,
     addresses |-> {DEFAULT_PREFIX \o name},
     relevant |-> FALSE,
     get_value |-> get_value,
     last_value |-> None,
     send_on_load |-> send_on_load,
     needs_initial_send |-> FALSE]

\* The addresses of a snapshot a scalar parameter accepts.
Compatible(p, snap) ==
    {addr \in snap.avatar_params :
        matches_address(p.name, addr) /\ TypeIsNoneOr(snap, addr, p.kind)}

\* A reset that never adds the FT fallback.
ScalarResetNoFallback(p, snap) ==
    LET compatible == Compatible(p, snap)
    IN  IF compatible # {}
        THEN [p EXCEPT
                !.addresses = compatible,
                !.last_value = None,
                !.relevant = TRUE,
                !.needs_initial_send = p.send_on_load]
        ELSE [p EXCEPT !.addresses = {},
                       !.last_value = None,
                       !.needs_initial_send = FALSE,
                       !.relevant = FALSE]

\* A reset that extends the address list without clearing it first.
ScalarResetKeepAddresses(p, snap) ==
    LET compatible == Compatible(p, snap)
        has_ft == \E a \in compatible : Contains(a, FT_SEGMENT)
    IN  IF compatible # {}
        THEN [p EXCEPT
                !.addresses = p.addresses \cup compatible \cup
                    (IF has_ft THEN {}
                     ELSE {DEFAULT_PREFIX \o FT_PREFIX \o p.name}),
                !.last_value = None,
                !.relevant = TRUE,
                !.needs_initial_send = p.send_on_load]
        ELSE [p EXCEPT !.last_value = None,
                       !.needs_initial_send = FALSE,
                       !.relevant = FALSE]

\* base_param.rs:97-141 (FloatParam), 231-273 (BoolParam), 362-404 (IntParam)
ScalarReset(p, snap) ==
    LET compatible == Compatible(p, snap)
        has_ft == \E a \in compatible : Contains(a, FT_SEGMENT)
    IN  IF compatible # {}
        THEN [p EXCEPT
                !.addresses = compatible \cup
                    (IF has_ft THEN {}
                     ELSE {DEFAULT_PREFIX \o FT_PREFIX \o p.name}),
                !.last_value = None,
                !.relevant = TRUE,
                !.needs_initial_send = p.send_on_load]
        ELSE [p EXCEPT !.addresses = {},
                       !.last_value = None,
                       !.needs_initial_send = FALSE,
                       !.relevant = FALSE]

\* The delta check: floats by distance, bools and ints by equality.
ShouldSend(p, value) ==
    IF p.last_value = None THEN TRUE
    ELSE IF p.kind = "Float"
         THEN Abs(value - p.last_value.v) > EPSILON
         ELSE value # p.last_value.v

\* OscType::Float / OscType::Int carry a number, OscType::Bool a truth value.
OscArg(kind, value) ==
    IF kind = "Bool" THEN [type |-> "Bool", n |-> IF value THEN 1 ELSE 0]
    ELSE [type |-> kind, n |-> value]

\* One OscMessage per address, each with the value as its only argument.
Messages(addresses, kind, value) ==
    {[addr |-> a, arg |-> OscArg(kind, value)] : a \in addresses}

\* A process that sends without recording what it sent.
ScalarProcessNoCache(p, d) ==
    LET value == GetValue(p.get_value, d) IN
    IF ~p.relevant THEN [p |-> p, out |-> {}]
    ELSE IF p.needs_initial_send
         THEN [p |-> [p EXCEPT !.needs_initial_send = FALSE],
               out |-> Messages(p.addresses, p.kind, value)]
    ELSE IF ~ShouldSend(p, value) THEN [p |-> p, out |-> {}]
    ELSE [p |-> p, out |-> Messages(p.addresses, p.kind, value)]

\* A process whose forced send leaves the send-on-load flag armed.
ScalarProcessStaysArmed(p, d) ==
    LET value == GetValue(p.get_value, d) IN
    IF ~p.relevant THEN [p |-> p, out |-> {}]
    ELSE IF p.needs_initial_send
         THEN [p |-> [p EXCEPT !.last_value = Some(value)],
               out |-> Messages(p.addresses, p.kind, value)]
    ELSE IF ~ShouldSend(p, value) THEN [p |-> p, out |-> {}]
    ELSE [p |-> [p EXCEPT !.last_value = Some(value)],
          out |-> Messages(p.addresses, p.kind, value)]

\* base_param.rs:143-183 (FloatParam), 275-314 (BoolParam), 406-445 (IntParam)
ScalarProcess(p, d) ==
    LET value == GetValue(p.get_value, d) IN
    IF ~p.relevant THEN [p |-> p, out |-> {}]
    ELSE IF p.needs_initial_send
         THEN [p |-> [p EXCEPT !.needs_initial_send = FALSE,
                               !.last_value = Some(value)],
               out |-> Messages(p.addresses, p.kind, value)]
    ELSE IF ~ShouldSend(p, value) THEN [p |-> p, out |-> {}]
    ELSE [p |-> [p EXCEPT !.last_value = Some(value)],
          out |-> Messages(p.addresses, p.kind, value)]

\* HashMap::new()
EmptyMap == [a \in {} |-> FALSE]

\* BinaryBaseParameter::new
BinaryNew(name, get_value) ==
    [name |-> name,
     bit_params |-> {},
     negative_param |-> None,
     max_binary_int |-> 0,
     relevant |-> FALSE,
     get_value |-> get_value,
     last_bits |-> EmptyMap,
     negative_relevant |-> FALSE]

\* The encoding with the product rounded to the nearest integer.
process_binary_Rounded(b, value, binary_index) ==
    IF ~b.negative_relevant /\ value < 0 THEN FALSE
    ELSE LET val == Abs(value) IN
         IF val > UNIT - EPSILON THEN TRUE
         ELSE LET big_value == (2 * val * b.max_binary_int + UNIT) \div (2 * UNIT) IN
              ((big_value \div (2^binary_index)) % 2) = 1

\* binary_param.rs:66-80; `as u32` truncates.
process_binary(b, value, binary_index) ==
    IF ~b.negative_relevant /\ value < 0 THEN FALSE
    ELSE LET val == Abs(value) IN
         IF val > UNIT - EPSILON THEN TRUE
         ELSE LET big_value == (val * b.max_binary_int) \div UNIT IN
              ((big_value \div (2^binary_index)) % 2) = 1

\* binary_param.rs:84-137; bit_params is the set of (address, shift) pairs.
BinaryReset(b, snap) ==
    LET neg_name == b.name \o NEGATIVE
        neg_addr == DEFAULT_PREFIX \o neg_name
        has_neg == \/ neg_addr \in snap.avatar_params
                   \/ \E a \in snap.avatar_params : EndsWith(a, neg_name)
        Steps(a) == get_binary_steps(matches_binary_pattern(b.name, a))
        params_to_create ==
            {<<a, Steps(a)>> : a \in
                {a \in snap.avatar_params :
                    TypeIsSomeAnd(snap, a, "Bool") /\ Steps(a) # -1}}
        cleared == [b EXCEPT
                      !.bit_params = {},
                      !.last_bits = EmptyMap,
                      !.negative_relevant = has_neg,
                      !.negative_param =
                          IF has_neg THEN Some(neg_addr) ELSE None]
    IN  IF params_to_create = {}
        THEN [cleared EXCEPT !.relevant = FALSE]
        ELSE [cleared EXCEPT
                 !.max_binary_int = 2^Cardinality(params_to_create),
                 !.bit_params = params_to_create,
                 !.relevant = TRUE]

\* binary_param.rs:139-177: the sign bit, then every bit, each sent only when
\* it differs from the bit cached for its address.
BinaryProcess(b, d) ==
    LET value == GetValue(b.get_value, d)
        sign == IF b.negative_param # None /\ b.negative_relevant
                THEN {<<b.negative_param.v, value < 0>>}
                ELSE {}
        bits == {<<bp[1], process_binary(b, value, bp[2])>> :
                    bp \in b.bit_params}
        changed == {e \in sign \cup bits :
                       \/ e[1] \notin DOMAIN b.last_bits
                       \/ b.last_bits[e[1]] # e[2]}
        touched == {e[1] : e \in changed}
    IN  IF ~b.relevant THEN [p |-> b, out |-> {}]
        ELSE [p |-> [b EXCEPT !.last_bits =
                        [a \in DOMAIN b.last_bits \cup touched |->
                            IF a \in touched
                            THEN (CHOOSE e \in changed : e[1] = a)[2]
                            ELSE b.last_bits[a]]],
              out |-> {[addr |-> e[1], arg |-> OscArg("Bool", e[2])] :
                          e \in changed}]

\* eparam.rs:18-43
EParamNew(name, min_bool_threshold, skip_binary) ==
    [type |-> "EParam",
     bool_param |-> ScalarNew("Bool", name,
                        [f |-> "below", threshold |-> min_bool_threshold],
                        FALSE),
     float_param |-> ScalarNew("Float", name, [f |-> "weight"], FALSE),
     binary_param |-> IF skip_binary THEN None
                      ELSE Some(BinaryNew(name, [f |-> "weight"]))]

\* A Box<dyn Parameter> holding a FloatParam, BoolParam or IntParam
Boxed(scalar) == [type |-> "Scalar", scalar |-> scalar]

\* Parameter::reset by dynamic type (eparam.rs:63-76 for an EParam)
ParamReset(e, snap) ==
    IF e.type = "EParam"
    THEN [e EXCEPT
            !.bool_param = ScalarReset(e.bool_param, snap),
            !.float_param = ScalarReset(e.float_param, snap),
            !.binary_param =
                IF e.binary_param = None THEN None
                ELSE Some(BinaryReset(e.binary_param.v, snap))]
    ELSE [e EXCEPT !.scalar = ScalarReset(e.scalar, snap)]

\* A message of the registry, with the parameter and the part it came from.
Tagged(i, part, out) ==
    {[param |-> i, part |-> part, addr |-> m.addr, arg |-> m.arg] : m \in out}

\* Parameter::process by dynamic type (eparam.rs:78-89 for an EParam); i is
\* the parameter's position in the registry.
ParamProcess(i, e, d) ==
    IF e.type = "EParam"
    THEN LET rb == ScalarProcess(e.bool_param, d)
             rf == ScalarProcess(e.float_param, d)
             rn == IF e.binary_param = None THEN [p |-> None, out |-> {}]
                   ELSE BinaryProcess(e.binary_param.v, d)
         IN  [p |-> [e EXCEPT
                       !.bool_param = rb.p,
                       !.float_param = rf.p,
                       !.binary_param =
                           IF e.binary_param = None THEN None
                           ELSE Some(rn.p)],
              out |-> Tagged(i, "bool", rb.out) \cup Tagged(i, "float", rf.out)
                        \cup Tagged(i, "binary", rn.out)]
    ELSE LET r == ScalarProcess(e.scalar, d) IN
         [p |-> [e EXCEPT !.scalar = r.p], out |-> Tagged(i, "scalar", r.out)]

\* ---- the registry of the model and its inputs ----

\* "v2/EyeX"
ParamName == <<"v", "2", "/", "E", "y", "e", "X">>

\* One EParam as ParameterRegistry::new builds them (EParam::simple), and, as
\* the parameter tests build them, a send-on-load FloatParam and an IntParam.
NewRegistry ==
    <<EParamNew(ParamName, UNIT \div 2, FALSE),
      Boxed(ScalarNew("Float", ParamName, [f |-> "weight"], TRUE)),
      Boxed(ScalarNew("Int", ParamName, [f |-> "whole"], FALSE))>>

\* The addresses an avatar of the model may advertise.
AddrPlain == DEFAULT_PREFIX \o ParamName
AddrFT == DEFAULT_PREFIX \o FT_PREFIX \o ParamName
AddrBit1 == DEFAULT_PREFIX \o ParamName \o <<"1">>
AddrFTBit2 == DEFAULT_PREFIX \o FT_PREFIX \o ParamName \o <<"2">>
AddrFTNegative == DEFAULT_PREFIX \o FT_PREFIX \o ParamName \o NEGATIVE

AddressUniverse == {AddrPlain, AddrFT, AddrBit1, AddrFTBit2, AddrFTNegative}

\* The type an avatar declares for an address; the plain address comes in
\* every type, and undeclared ("Unknown": no entry in param_types).
DeclaredType(addr, plain) ==
    IF addr = AddrPlain THEN plain
    ELSE IF addr = AddrFT THEN "Float"
    ELSE "Bool"

\* A discovery snapshot: the (avatar_params, param_types) pair of reset.
Snapshot(S, plain) ==
    [avatar_params |-> S,
     param_types |-> [a \in {a \in S : DeclaredType(a, plain) # "Unknown"}
                        |-> DeclaredType(a, plain)]]

Snapshots ==
    {Snapshot(S, plain) : S \in SUBSET AddressUniverse,
                          plain \in {"Float", "Bool", "Int", "Unknown"}}

\* The values of the signal: around zero in steps below the delta threshold,
\* a negative value, a half and full scale.
FrameValues == {-(UNIT \div 2), 0, EPSILON - 1, 2 * EPSILON - 2,
                UNIT \div 2, UNIT}

RegFrames == {[x |-> v] : v \in FrameValues}

\* Some delta cache of the registry is non-empty.
HasCache(ps) ==
    \E i \in DOMAIN ps :
        IF ps[i].type = "EParam"
        THEN \/ ps[i].bool_param.last_value # None
             \/ ps[i].float_param.last_value # None
             \/ /\ ps[i].binary_param # None
                /\ DOMAIN ps[i].binary_param.v.last_bits # {}
        ELSE ps[i].scalar.last_value # None

RegStart ==
    /\ parameters = NewRegistry
    /\ regSnap = None
    /\ regOut = {}
    /\ procRun = 0
    /\ curFrame = None
    /\ prevFrame = None
    /\ regPre = None
    /\ resetOverCache = FALSE

\* registry.rs:483-518: reset every parameter against the snapshot.
RegistryResetWith(snap) ==
    /\ parameters' = [i \in DOMAIN parameters |->
                         ParamReset(parameters[i], snap)]
    /\ regSnap' = Some(snap)
    /\ regOut' = {}
    /\ procRun' = 0
    /\ curFrame' = None
    /\ prevFrame' = None
    /\ regPre' = None
    /\ resetOverCache' = HasCache(parameters)

\* registry.rs:521-526: process every parameter and collect the messages.
RegistryProcessWith(d) ==
    LET r == [i \in DOMAIN parameters |-> ParamProcess(i, parameters[i], d)]
    IN  /\ parameters' = [i \in DOMAIN parameters |-> r[i].p]
        /\ regOut' = UNION {r[i].out : i \in DOMAIN parameters}
        /\ procRun' = IF procRun < 2 THEN procRun + 1 ELSE 2
        /\ prevFrame' = curFrame
        /\ curFrame' = Some(d)
        /\ regPre' = Some(parameters)
        /\ UNCHANGED <<regSnap, resetOverCache>>

RegistryReset ==
    /\ \E snap \in Snapshots : RegistryResetWith(snap)
    /\ UNCHANGED <<pipeVars, oscVars, calVars, discVars, fnVars, sideVars>>

RegistryProcess ==
    /\ \E d \in RegFrames : RegistryProcessWith(d)
    /\ UNCHANGED <<pipeVars, oscVars, calVars, discVars, fnVars, sideVars>>

-----------------------------------------------------------------------------
(***************************************************************************)
(* The functions of the parameter layer, applied to inputs of their own    *)
(***************************************************************************)

\* "EyeX", a name without a version of its own
ShortName == <<"E", "y", "e", "X">>

MatchNames == {ParamName, ShortName}

\* The path segments an address may put before the name: versions of one
\* and of two digits, a segment that ends like a version, FT and a custom one.
MatchSegments ==
    {<<"v", "1", "/">>, <<"v", "1", "2", "/">>, <<"R", "e", "v", "2", "/">>,
     FT_PREFIX, <<"x", "/">>}

\* None, one or two of them.
MatchMiddles ==
    {<<>>} \cup MatchSegments
           \cup {a \o b : a \in MatchSegments, b \in MatchSegments}

\* The name itself, the name with a bit suffix, the name inside a longer one.
MatchTails ==
    UNION {{n, n \o <<"1">>, <<"x">> \o n} : n \in MatchNames}

\* Addresses under the parameter prefix and under another one.
MatchAddresses ==
    {p \o mid \o tail : p \in {DEFAULT_PREFIX, <<"/", "x", "/">>},
                        mid \in MatchMiddles, tail \in MatchTails}

MatchInputs ==
    {[fn |-> "matches_address", name |-> n, addr |-> a] :
        n \in MatchNames, a \in MatchAddresses}

\* The bit addresses a binary parameter has discovered, at most.
MaxBits == 3

\* Canonical values: 0, 0.25, 0.3, 0.5, 0.6, 0.9, just below saturation,
\* 0.99999 and 1.0, and the negative of some.
BinaryValues ==
    {0, UNIT \div 4, (3 * UNIT) \div 10, UNIT \div 2, (6 * UNIT) \div 10,
     (9 * UNIT) \div 10, UNIT - 2 * EPSILON, UNIT - EPSILON, UNIT,
     -((3 * UNIT) \div 10), -(UNIT \div 2), -UNIT}

\* A binary parameter after a reset that found K bit addresses
\* (binary_param.rs:103-127); their suffixes need not be the K lowest powers.
BinaryWithBits(K, negative_relevant) ==
    [BinaryNew(ParamName, [f |-> "weight"]) EXCEPT
        !.max_binary_int = 2^K,
        !.relevant = TRUE,
        !.negative_relevant = negative_relevant]

BinaryInputs ==
    {[fn |-> "process_binary", K |-> K, negative_relevant |-> nr,
      value |-> v, binary_index |-> k] :
        K \in 1..MaxBits, nr \in BOOLEAN, v \in BinaryValues,
        k \in 0..(MaxBits - 1)}

FnStart ==
    /\ fnIn = [fn |-> "none"]
    /\ fnOut = None

\* matches_address on an input.
ApplyMatchesAddress ==
    /\ fnIn.fn = "matches_address"
    /\ fnOut = None
    /\ fnOut' = Some(matches_address(fnIn.name, fnIn.addr))
    /\ UNCHANGED fnIn
    /\ UNCHANGED <<pipeVars, regVars, oscVars, calVars, discVars, sideVars>>

\* process_binary on an input, for the bit address of suffix 2^binary_index.
ApplyProcessBinary ==
    /\ fnIn.fn = "process_binary"
    /\ fnOut = None
    /\ fnOut' = Some(process_binary(
                        BinaryWithBits(fnIn.K, fnIn.negative_relevant),
                        fnIn.value, fnIn.binary_index))
    /\ UNCHANGED fnIn
    /\ UNCHANGED <<pipeVars, regVars, oscVars, calVars, discVars, sideVars>>

-----------------------------------------------------------------------------
(***************************************************************************)
(* VRChat backend: app/src/osc/vrchat.rs, fed by osc/query/service.rs      *)
(***************************************************************************)

\* "/tracking/eye/LeftRightPitchYaw"
LRPY_ADDR ==
    <<"/", "t", "r", "a", "c", "k", "i", "n", "g", "/", "e", "y", "e", "/",
      "L", "e", "f", "t", "R", "i", "g", "h", "t",
      "P", "i", "t", "c", "h", "Y", "a", "w">>

\* The addresses send builds a message for: the fixed FT/v2/Eye* addresses
\* (here FT/v2/EyeX) and the native eye address; the solver's parameters are
\* addressed /avatar/parameters/FT/{name} alike.
BackendAddresses == {AddrFT, LRPY_ADDR}

\* A filter that lets every address through.
IsAllowedAlways(addr, allowed_params) == TRUE

\* vrchat.rs:223-228
is_allowed_static(addr, allowed_params) ==
    IF allowed_params = None THEN TRUE ELSE addr \in allowed_params.v

\* The avatars of this specification: one with the plain address only, one
\* with the FT address, a bit and a sign address under FT/, and an empty one.
OscSnapshots ==
    {Snapshot({AddrPlain}, "Float"),
     Snapshot({AddrFT, AddrBit1, AddrFTNegative}, "Float"),
     Snapshot({}, "Float")}

\* What the discovery service sends: Some(parameters) after a fetch
\* (service.rs:216), None when the service was removed (service.rs:146).
OscUpdates == {None} \cup {Some(snap.avatar_params) : snap \in OscSnapshots}

OscFrames == {[x |-> 0], [x |-> -(UNIT \div 2)]}

OscStart ==
    /\ allowed_parameters = None
    /\ query_rx = <<>>
    /\ oscOut = None
    /\ installed = None

\* service.rs:146 and 216: the discovery threads send an update.
DiscoveryPublish ==
    /\ Len(query_rx) < MaxPending
    /\ \E update \in OscUpdates : query_rx' = Append(query_rx, update)
    /\ UNCHANGED <<allowed_parameters, oscOut, installed>>
    /\ UNCHANGED <<pipeVars, regVars, calVars, discVars, fnVars, sideVars>>

\* vrchat.rs:47-48 and 82: initialize binds the sending socket.
SockStart ==
    /\ oscSocket = Some(1)
    /\ sockNew = 1
    /\ sendResult = "none"
    /\ sentOn = None
    /\ failedSocks = {}

\* vrchat.rs:166-194, the socket part of send, with a failed send_to that
\* leaves the socket in its cell.
Transmit_KeepsFailedSocket(msgs, bindOk, sendOk) ==
    LET bound == IF oscSocket # None THEN oscSocket
                 ELSE IF bindOk THEN Some(sockNew + 1) ELSE None
    IN  IF bound = None
        THEN [socket |-> None, sockNew |-> sockNew, res |-> "bind_err",
              on |-> None, out |-> {}, failed |-> failedSocks]
        ELSE IF sendOk
        THEN [socket |-> bound, sockNew |-> bound.v, res |-> "ok",
              on |-> bound, out |-> msgs, failed |-> failedSocks]
        ELSE [socket |-> bound, sockNew |-> bound.v, res |-> "send_err",
              on |-> bound, out |-> {},
              failed |-> failedSocks \cup {bound.v}]

\* vrchat.rs:166-194, the socket part of send: an empty cell is filled by a
\* new bind (or send returns the bind's error), send_to is called on the
\* socket of the cell, and a failed send_to empties the cell.
Transmit(msgs, bindOk, sendOk) ==
    LET bound == IF oscSocket # None THEN oscSocket
                 ELSE IF bindOk THEN Some(sockNew + 1) ELSE None
    IN  IF bound = None
        THEN [socket |-> None, sockNew |-> sockNew, res |-> "bind_err",
              on |-> None, out |-> {}, failed |-> failedSocks]
        ELSE IF sendOk
        THEN [socket |-> bound, sockNew |-> bound.v, res |-> "ok",
              on |-> bound, out |-> msgs, failed |-> failedSocks]
        ELSE [socket |-> None, sockNew |-> bound.v, res |-> "send_err",
              on |-> bound, out |-> {},
              failed |-> failedSocks \cup {bound.v}]

\* vrchat.rs:86-194: drain the updates (the last one stays installed), build
\* a message for every address the filter lets through, return Ok at once
\* when there is none (153-155), and transmit the bundle otherwise.
BackendSendWith(binds, sends) ==
    LET allowed_params == IF query_rx = <<>> THEN allowed_parameters
                          ELSE query_rx[Len(query_rx)]
        somes == {i \in 1..Len(query_rx) : query_rx[i] # None}
        messages == {addr \in BackendAddresses :
                        is_allowed_static(addr, allowed_params)}
    IN  /\ allowed_parameters' = allowed_params
        /\ query_rx' = <<>>
        /\ installed' = IF somes = {} THEN installed
                        ELSE query_rx[CHOOSE i \in somes :
                                         \A j \in somes : j <= i]
        /\ IF messages = {}
           THEN /\ oscOut' = Some({})
                /\ sendResult' = "ok"
                /\ sentOn' = None
                /\ UNCHANGED <<oscSocket, sockNew, failedSocks>>
           ELSE /\ oscSocket = None => sockNew < MaxSockets
                /\ \E bindOk \in binds, sendOk \in sends :
                     LET t == Transmit(messages, bindOk, sendOk) IN
                     /\ oscOut' = Some(t.out)
                     /\ oscSocket' = t.socket
                     /\ sockNew' = t.sockNew
                     /\ sendResult' = t.res
                     /\ sentOn' = t.on
                     /\ failedSocks' = t.failed
        /\ UNCHANGED exceptSock

\* The send of a backend whose socket works.
BackendSend == BackendSendWith({TRUE}, {TRUE})

\* The send of a backend whose binds and send_to calls may fail.
SockBackendSend == BackendSendWith(BOOLEAN, BOOLEAN)

\* The registry beside the backend, reset with the avatars of this
\* specification and fed its frames.
OscRegistryReset ==
    /\ \E snap \in OscSnapshots : RegistryResetWith(snap)
    /\ UNCHANGED <<pipeVars, oscVars, calVars, discVars, fnVars, sideVars>>

OscRegistryProcess ==
    /\ \E d \in OscFrames : RegistryProcessWith(d)
    /\ UNCHANGED <<pipeVars, oscVars, calVars, discVars, fnVars, sideVars>>


-----------------------------------------------------------------------------
(***************************************************************************)
(* Discovery service: app/src/osc/query/service.rs                         *)
(***************************************************************************)

\* service.rs:168, in milliseconds.
DEBOUNCE_MS == 500

\* service.rs:201
max_retries == 5

\* The fetch threads that run side by side.
MaxFetches == 1

\* The milliseconds that pass between two events of the change listener.
Elapses == {100, 400}

\* Beyond this the listener behaves as at it: the time is kept up to here.
ElapsedCap == DEBOUNCE_MS + 100

\* "http://{ip}:{port}/avatar" of the one platform client.
Url == "http://127.0.0.1:9001/avatar"

\* What a fetch can return when it succeeds.
FetchResults == {Snapshot({AddrPlain}, "Float").avatar_params,
                 Snapshot({AddrFT, AddrBit1, AddrFTNegative}, "Float").avatar_params}

\* s without its k-th element.
RemoveAt(s, k) == SubSeq(s, 1, k - 1) \o SubSeq(s, k + 1, Len(s))

\* OscQueryService::start: nothing discovered, no change seen, no fetch.
DiscStart ==
    /\ current_url = None
    /\ last_fetch_time = None
    /\ fetches = <<>>
    /\ lastNotif = None
    /\ lastFetch = None
    /\ removed = FALSE

\* service.rs:200-206: fetch_with_retry spawns a thread that starts at i = 0.
fetch_with_retry(threads) == Append(threads, 0)

\* service.rs:102-133: the platform client was resolved with an IPv4
\* address: the url is kept and the first fetch started.
ServiceResolved ==
    /\ Len(fetches) < MaxFetches
    /\ current_url' = Some(Url)
    /\ fetches' = fetch_with_retry(fetches)
    /\ lastNotif' = None
    /\ lastFetch' = None
    /\ UNCHANGED <<last_fetch_time, removed>>
    /\ UNCHANGED <<pipeVars, regVars, oscVars, calVars, fnVars, sideVars>>

\* service.rs:135-153: the platform client went away: the url is dropped and
\* None sent to the backend.
ServiceRemoved ==
    /\ Len(query_rx) < MaxPending
    /\ current_url' = None
    /\ query_rx' = Append(query_rx, None)
    /\ lastNotif' = None
    /\ lastFetch' = None
    /\ removed' = TRUE
    /\ UNCHANGED <<last_fetch_time, fetches>>
    /\ UNCHANGED <<allowed_parameters, oscOut, installed>>
    /\ UNCHANGED <<pipeVars, regVars, calVars, fnVars, sideVars>>

\* The listener that fetches on every notification.
AvatarChangeSignal_NoDebounce ==
    /\ current_url # None => Len(fetches) < MaxFetches
    /\ last_fetch_time' = Some(0)
    /\ fetches' = IF current_url # None THEN fetch_with_retry(fetches)
                  ELSE fetches
    /\ lastNotif' = Some([gap |-> last_fetch_time,
                          known |-> current_url # None,
                          clock |-> last_fetch_time',
                          spawned |-> Len(fetches') > Len(fetches)])
    /\ lastFetch' = None
    /\ UNCHANGED <<current_url, removed>>
    /\ UNCHANGED <<pipeVars, regVars, oscVars, calVars, fnVars, sideVars>>

\* service.rs:170-193: the change listener takes a notification: skipped
\* when the last accepted one is less than DEBOUNCE_MS old, else the clock
\* restarts and the current url, if there is one, is fetched.
AvatarChangeSignal ==
    LET debounced == /\ last_fetch_time # None
                     /\ last_fetch_time.v < DEBOUNCE_MS
        fetch == ~debounced /\ current_url # None
    IN  /\ fetch => Len(fetches) < MaxFetches
        /\ last_fetch_time' = IF debounced THEN last_fetch_time ELSE Some(0)
        /\ fetches' = IF fetch THEN fetch_with_retry(fetches) ELSE fetches
        /\ lastNotif' = Some([gap |-> last_fetch_time,
                              known |-> current_url # None,
                              clock |-> last_fetch_time',
                              spawned |-> Len(fetches') > Len(fetches)])
        /\ lastFetch' = None
    /\ UNCHANGED <<current_url, removed>>
        /\ UNCHANGED <<pipeVars, regVars, oscVars, calVars, fnVars, sideVars>>

\* Time passes for the change listener (Instant::elapsed, service.rs:173).
Elapse ==
    /\ last_fetch_time # None
    /\ last_fetch_time.v < ElapsedCap
    /\ \E d \in Elapses :
          last_fetch_time' = Some(IF last_fetch_time.v + d < ElapsedCap
                                  THEN last_fetch_time.v + d
                                  ELSE ElapsedCap)
    /\ lastFetch' = None
    /\ UNCHANGED <<current_url, fetches, lastNotif, removed>>
    /\ UNCHANGED <<pipeVars, regVars, oscVars, calVars, fnVars, sideVars>>

\* A fetch thread that reports its failure to the backend with None.
FetchAttempt_SendsNoneOnFailure ==
    \E k \in 1..Len(fetches) :
       LET i == fetches[k]
       IN  \/ /\ Len(query_rx) < MaxPending
              /\ \E params \in FetchResults :
                    query_rx' = Append(query_rx, Some(params))
              /\ fetches' = RemoveAt(fetches, k)
              /\ lastFetch' = Some([attempts |-> i + 1, delivered |-> TRUE])
              /\ lastNotif' = None
              /\ removed' = FALSE
              /\ UNCHANGED <<current_url, last_fetch_time>>
              /\ UNCHANGED <<allowed_parameters, oscOut, installed>>
              /\ UNCHANGED <<pipeVars, regVars, calVars, fnVars, sideVars>>
           \/ /\ i + 1 < max_retries
              /\ fetches' = [fetches EXCEPT ![k] = i + 1]
              /\ lastFetch' = None
              /\ lastNotif' = None
              /\ UNCHANGED <<current_url, last_fetch_time, removed>>
              /\ UNCHANGED <<pipeVars, regVars, oscVars, calVars, fnVars, sideVars>>
           \/ /\ i + 1 >= max_retries
              /\ Len(query_rx) < MaxPending
              /\ query_rx' = Append(query_rx, None)
              /\ fetches' = RemoveAt(fetches, k)
              /\ lastFetch' = Some([attempts |-> i + 1, delivered |-> FALSE])
              /\ lastNotif' = None
              /\ UNCHANGED <<current_url, last_fetch_time, removed>>
              /\ UNCHANGED <<allowed_parameters, oscOut, installed>>
              /\ UNCHANGED <<pipeVars, regVars, calVars, fnVars, sideVars>>

\* service.rs:206-232: one pass of a fetch thread's loop: fetch_avatar_parameters
\* succeeds, the parameters are sent and the thread returns; or it fails and
\* the thread goes on to the next i, or ends after the last one without
\* sending anything.
FetchAttempt ==
    \E k \in 1..Len(fetches) :
       LET i == fetches[k]
       IN  \/ /\ Len(query_rx) < MaxPending
              /\ \E params \in FetchResults :
                    query_rx' = Append(query_rx, Some(params))
              /\ fetches' = RemoveAt(fetches, k)
              /\ lastFetch' = Some([attempts |-> i + 1, delivered |-> TRUE])
              /\ lastNotif' = None
              /\ removed' = FALSE
              /\ UNCHANGED <<current_url, last_fetch_time>>
              /\ UNCHANGED <<allowed_parameters, oscOut, installed>>
              /\ UNCHANGED <<pipeVars, regVars, calVars, fnVars, sideVars>>
           \/ /\ i + 1 < max_retries
              /\ fetches' = [fetches EXCEPT ![k] = i + 1]
              /\ lastFetch' = None
              /\ lastNotif' = None
              /\ UNCHANGED <<current_url, last_fetch_time, removed>>
              /\ UNCHANGED <<pipeVars, regVars, oscVars, calVars, fnVars, sideVars>>
           \/ /\ i + 1 >= max_retries
              /\ fetches' = RemoveAt(fetches, k)
              /\ lastFetch' = Some([attempts |-> i + 1, delivered |-> FALSE])
              /\ lastNotif' = None
              /\ UNCHANGED <<current_url, last_fetch_time, removed>>
              /\ UNCHANGED <<pipeVars, regVars, oscVars, calVars, fnVars, sideVars>>

-----------------------------------------------------------------------------
(***************************************************************************)
(* Calibration: common/src/mutator.rs, calibration.rs,                     *)
(* calibration_manager.rs and the consumer loop of app/src/main.rs.        *)
(*                                                                         *)
(* Time is counted in whole seconds and weights in steps of 0.05, so that  *)
(* S_DELTA * dt is exact.  Every sample and every statistic carries a      *)
(* mark telling whether it stems from before the latest entry into         *)
(* Collecting: the entry marks whatever it leaves behind, in memory and in *)
(* the profile files, as old.                                              *)
(***************************************************************************)
\* The rolling window, POINTS = 64 in calibration.rs:7, scaled down.
POINTS == 2

\* S_DELTA = 0.15 (calibration.rs:10) in steps of 0.05 per second.
S_DELTA == 3

Maximum(a, b) == IF a > b THEN a ELSE b

Minimum(a, b) == IF a < b THEN a ELSE b

\* f32::NAN, the value of current_step before the first sample.
NaN == None

\* The shapes of the model, two of UnifiedExpressions.
Shapes == {"JawOpen", "MouthClosed"}

\* The frames of the model, with weights 0.0 and 0.2: every shape at
\* rest, and every shape raised.
CalFrames == {[s \in Shapes |-> 0], [s \in Shapes |-> 4]}

\* Frame periods, in seconds.
DtValues == {1, 2}

\* The durations start requests name.
Payloads == {Some(0), Some(2)}

\* Avatar ids the OSC receiver reports, and the profile ids they lead to.
AvatarIds == {"avtr_a", "avtr_b"}

ProfileIds == {"default"} \cup AvatarIds

\* A slot of data_points no sample was written to.
NoSample == [v |-> 0, sampled |-> FALSE, old |-> FALSE]

\* CalibrationParameter::default.  Of the statistics the model keeps max,
\* the one calculate_stats computes without floating point blending, with
\* max_old telling that the sample it holds is an old one; mean, std_dev,
\* confidence and max_confidence, which are reset, stored and loaded
\* together with max, and progress (fixed_index / len) are left out.
\* computed tells that calculate_stats ran on this parameter since it was
\* created, loaded or left behind by an entry.
DefaultParameter ==
    [rolling_index |-> 0, fixed_index |-> 0, finished |-> FALSE,
     data_points |-> [i \in 1..POINTS |-> NoSample],
     current_step |-> NaN, max |-> 0, max_old |-> FALSE, computed |-> FALSE]

\* CalibrationParameter::clamp_step: (value / factor).floor() * factor;
\* a factor of 0.0 gives 0/0 or inf * 0, NaN either way.
clamp_step(value, factor) ==
    IF factor = 0 THEN NaN ELSE Some((value \div factor) * factor)

\* CalibrationParameter::calculate_stats, lines 133-147 and 183-193: the
\* window of valid samples and the maximum it raises.
calculate_stats(p) ==
    LET min_samples == POINTS \div 10
        sample_count == Minimum(p.fixed_index, POINTS)
        valid_data == {p.data_points[i] : i \in 1..sample_count}
        max_val == CHOOSE s \in valid_data : \A o \in valid_data : o.v <= s.v
        new_max == max_val.v > p.max
    IN  IF p.fixed_index < min_samples \/ valid_data = {} THEN p
        ELSE [p EXCEPT
            !.max = IF new_max THEN max_val.v ELSE @,
            !.max_old = IF new_max THEN max_val.old ELSE @,
            !.computed = TRUE]

\* A noise filter without the NaN test: nothing passes before a step is set.
accepts_OnlyWhenDiffers(current_step, current_value, factor) ==
    /\ current_step # NaN
    /\ Abs(current_value - current_step.v) >= factor

\* calibration.rs:105-108: the noise filter,
\* current_step.is_nan() || difference >= S_DELTA * d_t.
accepts(current_step, current_value, factor) ==
    \/ current_step = NaN
    \/ Abs(current_value - current_step.v) >= factor

\* update_calibration with current_step assigned only after an acceptance.
update_calibration_StepOnAccept(p, current_value, continuous, d_t) ==
    LET factor == S_DELTA * d_t
        accept == accepts(p.current_step, current_value, factor)
        counted ==
            IF p.fixed_index < POINTS
            THEN [p EXCEPT !.fixed_index = @ + 1]
            ELSE IF ~p.finished THEN [p EXCEPT !.finished = TRUE] ELSE p
        written == [counted EXCEPT !.data_points[p.rolling_index + 1] =
                        [v |-> current_value, sampled |-> TRUE, old |-> FALSE]]
        advanced ==
            IF ~written.finished \/ continuous
            THEN calculate_stats(
                     [written EXCEPT !.rolling_index = (@ + 1) % POINTS])
            ELSE written
        q == IF accept THEN advanced ELSE p
    IN  IF accept
        THEN [q EXCEPT !.current_step = clamp_step(current_value, factor)]
        ELSE q

\* update_calibration that rolls and recomputes whatever finished and
\* continuous say.
update_calibration_AlwaysRolls(p, current_value, continuous, d_t) ==
    LET factor == S_DELTA * d_t
        accept == accepts(p.current_step, current_value, factor)
        counted ==
            IF p.fixed_index < POINTS
            THEN [p EXCEPT !.fixed_index = @ + 1]
            ELSE IF ~p.finished THEN [p EXCEPT !.finished = TRUE] ELSE p
        written == [counted EXCEPT !.data_points[p.rolling_index + 1] =
                        [v |-> current_value, sampled |-> TRUE, old |-> FALSE]]
        advanced ==
            IF TRUE
            THEN calculate_stats(
                     [written EXCEPT !.rolling_index = (@ + 1) % POINTS])
            ELSE written
        q == IF accept THEN advanced ELSE p
    IN  [q EXCEPT !.current_step = clamp_step(current_value, factor)]

\* CalibrationParameter::update_calibration.
update_calibration(p, current_value, continuous, d_t) ==
    LET factor == S_DELTA * d_t
        accept == accepts(p.current_step, current_value, factor)
        counted ==
            IF p.fixed_index < POINTS
            THEN [p EXCEPT !.fixed_index = @ + 1]
            ELSE IF ~p.finished THEN [p EXCEPT !.finished = TRUE] ELSE p
        written == [counted EXCEPT !.data_points[p.rolling_index + 1] =
                        [v |-> current_value, sampled |-> TRUE, old |-> FALSE]]
        advanced ==
            IF ~written.finished \/ continuous
            THEN calculate_stats(
                     [written EXCEPT !.rolling_index = (@ + 1) % POINTS])
            ELSE written
        q == IF accept THEN advanced ELSE p
    IN  [q EXCEPT !.current_step = clamp_step(current_value, factor)]

\* CalibrationData::clear: every shape back to its default.
clear == [s \in Shapes |-> DefaultParameter]

\* What serde writes of a parameter: the fields without #[serde(skip)].
Serialized(p) == [max |-> p.max, max_old |-> p.max_old]

\* What serde reads back: the skipped fields take their types' defaults
\* (current_step 0.0, not NaN).
Deserialized(f) ==
    [rolling_index |-> 0, fixed_index |-> 0, finished |-> FALSE,
     data_points |-> [i \in 1..POINTS |-> NoSample],
     current_step |-> Some(0), max |-> f.max, max_old |-> f.max_old,
     computed |-> FALSE]

\* Statistics that owe something to samples from before the latest entry.
OldStats(f) == f.max_old

\* The marks after an entry into Collecting: what it left behind is old.
AgedStats(f) == [f EXCEPT !.max_old = (f.max > 0)]

AgedParameter(p) ==
    [AgedStats(p) EXCEPT
        !.data_points = [i \in 1..POINTS |->
                            [p.data_points[i] EXCEPT
                                !.old = p.data_points[i].sampled]],
        !.computed = FALSE]

\* CalibrationState values.
Uncalibrated == [state |-> "Uncalibrated", timer |-> 0, duration |-> 0]

Collecting(timer, duration) ==
    [state |-> "Collecting", timer |-> timer, duration |-> duration]

Calibrated == [state |-> "Calibrated", timer |-> 0, duration |-> 0]

\* The mutator's calibration part: its state, the manager's data and
\* profile id, the profile files, and the observations of the model.
Mutator ==
    [calibration_state |-> calibration_state, shapes |-> shapes,
     current_profile_id |-> current_profile_id, profiles |-> profiles,
     loadedOld |-> loadedOld]

\* The observations at an entry into Collecting.
Entered(m) ==
    [m EXCEPT
        !.shapes = [s \in Shapes |-> AgedParameter(@[s])],
        !.profiles = [id \in ProfileIds |->
                        IF @[id] = None THEN None
                        ELSE Some([s \in Shapes |-> AgedStats(@[id].v[s])])],
        !.loadedOld = FALSE]

\* A start_calibration that enters Collecting and leaves the data as it is.
start_calibration_NoClear(m, duration_seconds) ==
    IF ~config.calibration_enabled THEN m
    ELSE Entered([m EXCEPT
                    !.calibration_state = Collecting(0, duration_seconds)])

\* start_calibration without its test of the switch.
start_calibration_Unguarded(m, duration_seconds) ==
    Entered([m EXCEPT
               !.calibration_state = Collecting(0, duration_seconds),
               !.shapes = clear])

\* UnifiedTrackingMutator::start_calibration (mutator.rs:209-218).
start_calibration(m, duration_seconds) ==
    IF ~config.calibration_enabled THEN m
    ELSE Entered([m EXCEPT
                    !.calibration_state = Collecting(0, duration_seconds),
                    !.shapes = clear])

\* UnifiedTrackingMutator::has_calibration_data.
has_calibration_data(m) == \E s \in Shapes : m.shapes[s].max > 0

\* CalibrationManager::save_current_profile: the file of the current
\* profile is replaced by the serialized data.
save_current_profile(m) ==
    [m EXCEPT !.profiles[m.current_profile_id] =
                  Some([s \in Shapes |-> Serialized(m.shapes[s])])]

\* UnifiedTrackingMutator::save_calibration.
save_calibration(m) ==
    IF ~config.calibration_enabled THEN m ELSE save_current_profile(m)

\* CalibrationManager::load_profile, for a profile whose file exists.
load_profile(m, profile_id) ==
    LET read == [s \in Shapes |-> Deserialized(m.profiles[profile_id].v[s])]
    IN  [m EXCEPT !.shapes = read,
                  !.current_profile_id = profile_id,
                  !.loadedOld = @ \/ \E s \in Shapes : OldStats(read[s])]

\* CalibrationManager::switch_profile.
ManagerSwitchProfile(m, new_profile_id, save_current) ==
    IF m.current_profile_id = new_profile_id THEN m
    ELSE LET saved == IF save_current THEN save_current_profile(m) ELSE m
         IN  IF saved.profiles[new_profile_id] # None
             THEN load_profile(saved, new_profile_id)
             ELSE [saved EXCEPT !.shapes = clear,
                                !.current_profile_id = new_profile_id]

\* UnifiedTrackingMutator::switch_profile.
switch_profile(m, new_profile_id) ==
    IF ~config.calibration_enabled THEN m
    ELSE ManagerSwitchProfile(m, new_profile_id, has_calibration_data(m))

\* UnifiedTrackingMutator::mutate (mutator.rs:269-355), its calibration
\* part: the timer, then update_calibration of every shape.
mutate(m, frame, dt) ==
    IF ~config.mutator_enabled THEN m
    ELSE LET st == m.calibration_state
             next == IF st.state = "Collecting"
                     THEN IF st.timer + dt >= st.duration
                          THEN Calibrated
                          ELSE Collecting(st.timer + dt, st.duration)
                     ELSE st
         IN  [m EXCEPT
                !.calibration_state = next,
                !.shapes = IF config.calibration_enabled
                           THEN [s \in Shapes |->
                                    update_calibration(m.shapes[s], frame[s],
                                        config.continuous, dt)]
                           ELSE @]

\* The avatar change a tick can meet: main.rs:490 looks at it only while
\* calibration is enabled.
Changes ==
    IF config.calibration_enabled THEN {None} \cup {Some(a) : a \in AvatarIds}
    ELSE {None}

\* Whether 30 s have passed since the last periodic save; read only while
\* calibration is enabled (main.rs:512).
SaveDue == IF config.calibration_enabled THEN BOOLEAN ELSE {FALSE}

\* The mutator after a step of the consumer.
Install(m) ==
    /\ calibration_state' = m.calibration_state
    /\ shapes' = m.shapes
    /\ current_profile_id' = m.current_profile_id
    /\ profiles' = m.profiles
    /\ loadedOld' = m.loadedOld

\* MutatorConfig::default and CalibrationConfig::default.
DefaultConfig ==
    [mutator_enabled |-> TRUE, calibration_enabled |-> FALSE,
     continuous |-> FALSE]

\* UnifiedTrackingMutator::new and the consumer's locals; no profile file
\* exists yet, so load_calibration of main.rs:307 finds nothing.
CalStart ==
    /\ config \in [mutator_enabled : BOOLEAN, calibration_enabled : BOOLEAN,
                   continuous : BOOLEAN]
    /\ calibration_state = Uncalibrated
    /\ shapes = clear
    /\ current_profile_id = "default"
    /\ profiles = [id \in ProfileIds |-> None]
    /\ calibration_request = None
    /\ calibration_status = FALSE
    /\ was_calibrating = FALSE
    /\ calpc = "request"
    /\ entered = FALSE
    /\ mutPre = None
    /\ loadedOld = FALSE
    /\ posted = None
    /\ taken = None
    /\ lastPost = None

\* The duration a client leaves out (extensions.rs:100), in seconds.
DefaultDuration == 30

\* The handler without the floor of 1 s on the duration.
StartCalibrationHandlerWith_NoFloor(payloads) ==
    /\ \E payload \in payloads :
          LET duration == IF payload = None THEN DefaultDuration ELSE payload.v
              refused == calibration_status
          IN  /\ calibration_request' =
                     IF refused THEN calibration_request ELSE Some(duration)
              /\ posted' = IF refused THEN posted ELSE Some(payload)
              /\ lastPost' =
                     Some([answer |-> IF refused THEN "already_calibrating"
                                      ELSE "starting",
                           collecting |-> calibration_state.state = "Collecting"])
    /\ UNCHANGED <<config, calibration_state, shapes, current_profile_id,
                   profiles, calibration_status, was_calibrating, calpc,
                   entered, mutPre, loadedOld, taken>>
    /\ UNCHANGED <<pipeVars, regVars, oscVars, discVars, fnVars, sideVars>>

\* start_calibration_handler (extensions.rs:84-113): refuses while the
\* published status says calibrating, else writes the duration, raised to at
\* least 1 s, to the request cell.  The status is read and the cell written
\* under two separate lock acquisitions; the handler is one step here.
StartCalibrationHandlerWith(payloads) ==
    /\ \E payload \in payloads :
          LET duration == Maximum(IF payload = None THEN DefaultDuration
                                  ELSE payload.v, 1)
              refused == calibration_status
          IN  /\ calibration_request' =
                     IF refused THEN calibration_request ELSE Some(duration)
              /\ posted' = IF refused THEN posted ELSE Some(payload)
              /\ lastPost' =
                     Some([answer |-> IF refused THEN "already_calibrating"
                                      ELSE "starting",
                           collecting |-> calibration_state.state = "Collecting"])
    /\ UNCHANGED <<config, calibration_state, shapes, current_profile_id,
                   profiles, calibration_status, was_calibrating, calpc,
                   entered, mutPre, loadedOld, taken>>
    /\ UNCHANGED <<pipeVars, regVars, oscVars, discVars, fnVars, sideVars>>

StartCalibrationHandler == StartCalibrationHandlerWith(Payloads)

\* A consumer that reads the cell and leaves the request in it.
TakeRequest_KeepsCell == UNCHANGED <<calibration_request, posted>>

\* `*req = None` of main.rs:448: the request is gone from the cell once the
\* consumer has read it.
TakeRequest ==
    /\ calibration_request' = None
    /\ posted' = None

\* The request step without the look at the state: any pending request
\* starts a calibration.
ConsumerRequest_NoGuard ==
    /\ calpc = "request"
    /\ LET m == Mutator
           start == calibration_request # None
           m2 == IF start THEN start_calibration(m, calibration_request.v) ELSE m
       IN  /\ Install(m2)
           /\ entered' = (start /\ config.calibration_enabled)
    /\ taken' = IF calibration_request = None THEN None
                ELSE Some([payload |-> posted.v, found |-> calibration_state])
    /\ TakeRequest
    /\ lastPost' = None
    /\ calpc' = "mutate"
    /\ UNCHANGED <<config, calibration_status, was_calibrating, mutPre>>
    /\ UNCHANGED <<pipeVars, regVars, oscVars, discVars, fnVars, sideVars>>

\* Consumer loop, main.rs:439-450: a pending request starts a calibration
\* from Uncalibrated or Calibrated and is taken from the cell either way.
ConsumerRequest ==
    /\ calpc = "request"
    /\ LET m == Mutator
           start == /\ calibration_request # None
                    /\ m.calibration_state.state \in {"Uncalibrated", "Calibrated"}
           m2 == IF start THEN start_calibration(m, calibration_request.v) ELSE m
       IN  /\ Install(m2)
           /\ entered' = (start /\ config.calibration_enabled)
    /\ taken' = IF calibration_request = None THEN None
                ELSE Some([payload |-> posted.v, found |-> calibration_state])
    /\ TakeRequest
    /\ lastPost' = None
    /\ calpc' = "mutate"
    /\ UNCHANGED <<config, calibration_status, was_calibrating, mutPre>>
    /\ UNCHANGED <<pipeVars, regVars, oscVars, discVars, fnVars, sideVars>>

\* Consumer loop, main.rs:452-519: mutate, the save when a collection
\* finished, the status, the avatar change (at most one a tick here) and
\* the periodic save (should_save: 30 s have passed).
ConsumerCalibrateWith(frames, dts, changes, dues) ==
    /\ calpc = "mutate"
    /\ \E frame \in frames, dt \in dts, change \in changes, should_save \in dues :
          LET m1 == mutate(Mutator, frame, dt)
              is_calibrating_now == m1.calibration_state.state = "Collecting"
              m2 == IF was_calibrating /\ ~is_calibrating_now
                    THEN save_calibration(m1) ELSE m1
              m3 == IF change # None /\ config.calibration_enabled
                    THEN switch_profile(m2, change.v) ELSE m2
              m4 == IF /\ should_save
                       /\ config.calibration_enabled
                       /\ has_calibration_data(m3)
                    THEN save_calibration(m3) ELSE m3
          IN  /\ Install(m4)
              /\ was_calibrating' = is_calibrating_now
              /\ calibration_status' = is_calibrating_now
              /\ mutPre' = IF calibration_state.state = "Collecting"
                            THEN Some([found |-> calibration_state, dt |-> dt])
                            ELSE None
    /\ calpc' = "request"
    /\ entered' = FALSE
    /\ taken' = None
    /\ lastPost' = None
    /\ UNCHANGED <<config, calibration_request, posted>>
    /\ UNCHANGED <<pipeVars, regVars, oscVars, discVars, fnVars, sideVars>>

ConsumerCalibrate == ConsumerCalibrateWith(CalFrames, DtValues, Changes, SaveDue)

\* The control surface with the consumer: every kind of payload, ticks of
\* 10 s and 20 s on a face at rest, no avatar change and no periodic save.
CtlPayloads == {None, Some(0), Some(15)}

CtlDtValues == {10, 20}

CtlStartCalibrationHandler == StartCalibrationHandlerWith(CtlPayloads)

CtlConsumerCalibrate ==
    ConsumerCalibrateWith({[s \in Shapes |-> 0]}, CtlDtValues, {None}, {FALSE})


-----------------------------------------------------------------------------
(***************************************************************************)
(* Cancellation: the running flag of app/src/main.rs and the loops of the  *)
(* daemon's threads.  A loop is at its head (testing its condition or      *)
(* blocked in the receive that starts an iteration), in its body, or done. *)
(***************************************************************************)

Loops == {"producer", "consumer", "browse", "change", "receive"}

\* The loops whose condition is a load of the running flag:
\* while running.load(..) (main.rs:531) and while running_consumer.load(..)
\* (main.rs:345).  The browse thread is loop { .. } (service.rs:78), the
\* change listener while change_rx.recv().is_ok() (service.rs:170) and the
\* receive thread loop { .. } (vrchat.rs:68).
FlagLoops == {"producer", "consumer"}

RunStart ==
    /\ running = TRUE
    /\ loopAt = [l \in Loops |-> "head"]
    /\ exited = FALSE
    /\ afterClear = [l \in Loops |-> 0]

\* One more iteration begun by loop l; counted when the flag is clear.
Begun(l) ==
    IF running \/ afterClear[l] >= MaxAfter THEN afterClear
    ELSE [afterClear EXCEPT ![l] = @ + 1]

\* main.rs:105-108: the Ctrl-C handler stores false.
CtrlC ==
    /\ ~exited
    /\ running
    /\ running' = FALSE
    /\ UNCHANGED <<loopAt, exited, afterClear>>
    /\ UNCHANGED exceptRun

\* A loop of the first kind is a loop that never reads the flag.
FlagLoopTestIgnoresFlag(l) ==
    /\ ~exited
    /\ l \in FlagLoops
    /\ loopAt[l] = "head"
    /\ loopAt' = [loopAt EXCEPT ![l] = "body"]
    /\ afterClear' = Begun(l)
    /\ UNCHANGED <<running, exited>>
    /\ UNCHANGED exceptRun

\* main.rs:531 and main.rs:345: the loop condition loads the flag.
FlagLoopTest(l) ==
    /\ ~exited
    /\ l \in FlagLoops
    /\ loopAt[l] = "head"
    /\ loopAt' = [loopAt EXCEPT ![l] = IF running THEN "body" ELSE "done"]
    /\ afterClear' = IF running THEN Begun(l) ELSE afterClear
    /\ UNCHANGED <<running, exited>>
    /\ UNCHANGED exceptRun

\* service.rs:78-159 (an mDNS event or a restart of the daemon),
\* service.rs:170 (a change signal) and vrchat.rs:68-69 (a datagram or a
\* receive error): the iteration starts without a look at the flag.
PlainLoopBegin(l) ==
    /\ ~exited
    /\ l \in Loops \ FlagLoops
    /\ loopAt[l] = "head"
    /\ loopAt' = [loopAt EXCEPT ![l] = "body"]
    /\ afterClear' = Begun(l)
    /\ UNCHANGED <<running, exited>>
    /\ UNCHANGED exceptRun

\* The body of an iteration runs to its end; no body is interrupted.
LoopBodyEnd(l) ==
    /\ ~exited
    /\ loopAt[l] = "body"
    /\ loopAt' = [loopAt EXCEPT ![l] = "head"]
    /\ UNCHANGED <<running, exited, afterClear>>
    /\ UNCHANGED exceptRun

\* main.rs:600-604: after the producer loop main unloads the modules and
\* returns, which ends the process and with it every other thread.
MainReturn ==
    /\ ~exited
    /\ loopAt["producer"] = "done"
    /\ exited' = TRUE
    /\ UNCHANGED <<running, loopAt, afterClear>>
    /\ UNCHANGED exceptRun

(***************************************************************************)
(* The proxy adapter and its host process: vrft_d/api/src/proxy.rs.  Time  *)
(* is counted in whole seconds.                                            *)
(***************************************************************************)

\* proxy.rs:231: Duration::from_secs(5)
PX_TIMEOUT_S == 5

\* Seconds that pass between two updates.
PxElapses == {1, 3}

PxCap == PX_TIMEOUT_S + 1

\* What an update that has not run yet has found.
PxNoObs == [did |-> "none", child |-> "none", err |-> FALSE, stale |-> 0]

\* proxy.rs:72-81: start has spawned the host and mapped its memory;
\* connect_shmem took the time (proxy.rs:130).
PxStart ==
    /\ pxChild = "running"
    /\ pxShmem = TRUE
    /\ pxBeat = FALSE
    /\ pxStale = 0
    /\ pxSpawns = 1
    /\ pxObs = PxNoObs

\* The host advances runtime_heartbeat in the shared memory.
HostBeat ==
    /\ pxChild = "running"
    /\ ~pxBeat
    /\ pxBeat' = TRUE
    /\ UNCHANGED <<pxChild, pxShmem, pxStale, pxSpawns, pxObs>>
    /\ UNCHANGED exceptPx

\* The host process ends by itself.
HostExit ==
    /\ pxChild = "running"
    /\ pxChild' = "exited"
    /\ UNCHANGED <<pxShmem, pxBeat, pxStale, pxSpawns, pxObs>>
    /\ UNCHANGED exceptPx

\* An adapter that never misses the heartbeat.
PxHeartbeatLostNever(stale) == FALSE

\* proxy.rs:231: last_runtime_update.elapsed() > 5 s
PxHeartbeatLost(stale) == stale > PX_TIMEOUT_S

\* proxy.rs:223-246: should_restart, and whether update itself kills.
ShouldRestart(child, waitErr, stale) ==
    IF child = "none" THEN "restart_nochild"
    ELSE IF waitErr THEN "restart_error"
    ELSE IF child = "exited" THEN "restart_exited"
    ELSE IF PxHeartbeatLost(stale) THEN "killed_stale"
    ELSE "kept"

\* proxy.rs:178-260, update: with the memory mapped, read the heartbeat and
\* take the time when it differs from the one read last (189-192); look at
\* the child (223-246); on a restart unload (262-281: unmap, kill the
\* child), spawn a child and, when that worked, map its memory anew, which
\* takes the time (248-257, 107-132; a failing connect_shmem has tried for
\* 10 s).  The heartbeat in the memory of a new host may or may not differ
\* from the one read last.  update returns Ok on every path.
PxUpdate ==
    /\ \E e \in PxElapses, waitErr \in BOOLEAN, spawnOk \in BOOLEAN,
          mapOk \in BOOLEAN, differs \in BOOLEAN :
         LET elapsed == IF pxStale + e > PxCap THEN PxCap ELSE pxStale + e
             stale == IF pxShmem /\ pxBeat THEN 0 ELSE elapsed
             did == ShouldRestart(pxChild, waitErr, stale)
         IN  /\ pxObs' = [did |-> did, child |-> pxChild, err |-> waitErr,
                          stale |-> stale]
             /\ pxBeat' = IF did # "kept" THEN spawnOk /\ mapOk /\ differs
                          ELSE IF pxShmem THEN FALSE ELSE pxBeat
             /\ IF did = "kept"
                THEN /\ pxStale' = stale
                     /\ UNCHANGED <<pxChild, pxShmem, pxSpawns>>
                ELSE /\ pxSpawns < MaxSpawns
                     /\ pxChild' = IF spawnOk THEN "running" ELSE "none"
                     /\ pxSpawns' = IF spawnOk THEN pxSpawns + 1 ELSE pxSpawns
                     /\ pxShmem' = (spawnOk /\ mapOk)
                     /\ pxStale' = IF ~spawnOk THEN stale
                                    ELSE IF mapOk THEN 0 ELSE PxCap
    /\ UNCHANGED exceptPx

(***************************************************************************)

(***************************************************************************)
(* The Virtual Desktop adapter: modules/vd_module/src/virtual_desktop.rs   *)
(* (vd_module/src/virtual_desktop.rs is the same state machine).  Time is  *)
(* counted in whole seconds.                                               *)
(***************************************************************************)

\* virtual_desktop.rs:499: Duration::from_secs(10)
VD_TIMEOUT_S == 10

\* Seconds that pass between two looks at the clock.
VdElapses == {1, 3}

VdCap == VD_TIMEOUT_S + 1

\* virtual_desktop.rs:108-117 and 443-448: new() leaves every handle null
\* and takes the time; initialize connects nothing.
VdStart ==
    /\ vdConnected = FALSE
    /\ vdPeer = FALSE
    /\ vdSince = 0
    /\ vdResult = "none"
    /\ vdTeardowns = 0
    /\ vdBegan = "none"

\* The streamer starts or stops: its mapping and event appear or vanish.
VdPeerChange ==
    /\ vdPeer' = ~vdPeer
    /\ UNCHANGED <<vdConnected, vdSince, vdResult, vdTeardowns, vdBegan>>
    /\ UNCHANGED exceptVd

\* An adapter that never gives a silent connection up.
VdTimedOutNever(since) == FALSE

\* virtual_desktop.rs:499: last_valid_frame_time.elapsed() > 10 s
VdTimedOut(since) == since > VD_TIMEOUT_S

\* virtual_desktop.rs:450-509, update: connect when not connected (149-214;
\* it succeeds when the streamer's objects exist and takes the time), wait
\* for the event and read a frame, and give the connection up when the last
\* valid frame is older than the timeout.
VdUpdate ==
    /\ vdTeardowns < MaxTeardowns
    /\ \E e \in VdElapses, signalled \in BOOLEAN, is_valid \in BOOLEAN :
         LET elapsed == IF vdSince + e > VdCap THEN VdCap ELSE vdSince + e IN
         IF ~vdConnected /\ ~vdPeer
         THEN /\ vdResult' = "not_connected"
              /\ vdSince' = elapsed
              /\ UNCHANGED <<vdConnected, vdTeardowns>>
         ELSE LET since == IF vdConnected THEN elapsed ELSE 0 IN
              IF vdPeer /\ signalled /\ is_valid
              THEN /\ vdConnected' = TRUE
                   /\ vdSince' = 0
                   /\ vdResult' = "ok"
                   /\ UNCHANGED vdTeardowns
              ELSE IF VdTimedOut(since)
              THEN /\ vdConnected' = FALSE
                   /\ vdSince' = since
                   /\ vdResult' = "timeout"
                   /\ vdTeardowns' = vdTeardowns + 1
              ELSE /\ vdConnected' = TRUE
                   /\ vdSince' = since
                   /\ vdResult' = "no_frame"
                   /\ UNCHANGED vdTeardowns
    /\ vdBegan' = IF vdConnected THEN "connected" ELSE "disconnected"
    /\ UNCHANGED vdPeer
    /\ UNCHANGED exceptVd

(***************************************************************************)
(* One calibration parameter with all its statistics:                      *)
(* common/src/calibration.rs.  Samples, mean and std_dev are counted in    *)
(* steps of 0.05, confidences in tenths and progress in percent.           *)
(***************************************************************************)

\* Samples 0.0, 0.1 and 0.2.
StatValues == {0, 2, 4}

\* Frame periods in seconds; update_calibration is handed whatever the
\* consumer measured, 0 included.
StatDts == {0, 1}

\* A confidence of 1.0 (calibration.rs:77: "confidence score (0-1)").
CONF_ONE == 10

\* calibration.rs:13: 0.1
C_DELTA == 1

\* What the multi-factor formula of calibration.rs:156-164 may give: it
\* ends in clamp(0.0, 1.0); the model takes any of these instead of
\* computing the powers of the formula.
NewConfidences == {0, 9, 10}

\* CalibrationParameter::default, the fields DefaultParameter leaves out
\* (calibration.rs:90-97).
DefaultStatistics ==
    [progress |-> 0, mean |-> 0, std_dev |-> 0, confidence |-> 0,
     max_confidence |-> 0]

RECURSIVE SumOver(_, _)
SumOver(f, n) == IF n = 0 THEN 0 ELSE f[n] + SumOver(f, n - 1)

\* The integer part of a square root.
Isqrt(n) == CHOOSE r \in 0..n : r * r <= n /\ n < (r + 1) * (r + 1)

\* a * lerp + b * (1 - lerp), with lerp in hundredths.
Blend(a, b, lerp) ==
    (a * lerp + b * (CONF_ONE * CONF_ONE - lerp)) \div (CONF_ONE * CONF_ONE)

\* A blend that forgets the peak: max_confidence follows new_confidence.
BlendPeak_FollowsNew(max_confidence, new_confidence, lerp) ==
    new_confidence

\* calibration.rs:180-182: the peak is raised, never lowered.
BlendPeak(max_confidence, new_confidence, lerp) ==
    IF new_confidence > max_confidence
    THEN Blend(max_confidence, new_confidence, lerp)
    ELSE max_confidence

\* The statistics after a call of update_calibration that took the
\* parameter from p to q: progress follows fixed_index (calibration.rs:
\* 109-111), and when the call went on to calculate_stats, which is when it
\* advanced rolling_index (118-121), mean, std_dev, confidence and
\* max_confidence are blended as in calibration.rs:133-183.
update_statistics(st, p, q, new_confidence) ==
    LET counted == q.fixed_index # p.fixed_index
        st1 == IF counted
               THEN [st EXCEPT !.progress = (q.fixed_index * 100) \div POINTS]
               ELSE st
        ran == q.rolling_index # p.rolling_index
        min_samples == POINTS \div 10
        sample_count == Minimum(q.fixed_index, POINTS)
        vals == [i \in 1..sample_count |-> q.data_points[i].v]
        new_mean == SumOver(vals, sample_count) \div sample_count
        sq == [i \in 1..sample_count |->
                 (vals[i] - new_mean) * (vals[i] - new_mean)]
        new_std_dev == Isqrt(SumOver(sq, sample_count) \div sample_count)
        lerp == CONF_ONE * CONF_ONE - st.confidence * st.confidence
    IN  IF ~ran \/ q.fixed_index < min_samples \/ sample_count = 0 THEN st1
        ELSE IF new_confidence < st.max_confidence - C_DELTA THEN st1
        ELSE [st1 EXCEPT
                !.mean = Blend(new_mean, @, lerp),
                !.std_dev = Blend(new_std_dev, @, lerp),
                !.confidence = Blend(new_confidence, @, lerp),
                !.max_confidence = BlendPeak(@, new_confidence, lerp)]

\* The observation of an operation: its arguments, current_step as it
\* found it, and whether it changed anything but current_step.
Operation(op, v, dt, was, touched) ==
    [op |-> op, v |-> v, dt |-> dt, was |-> was, touched |-> touched]

NoOperation == Operation("none", 0, 0, NaN, FALSE)

StatStart ==
    /\ statP = DefaultParameter
    /\ statS = DefaultStatistics
    /\ statIn = NoOperation

\* CalibrationParameter::update_calibration on a sample, called by mutate
\* with config.continuous (mutator.rs:292).
ApplyUpdateCalibration ==
    /\ \E v \in StatValues, dt \in StatDts, new_confidence \in NewConfidences :
         LET q == update_calibration(statP, v, config.continuous, dt) IN
         /\ statP' = q
         /\ statS' = update_statistics(statS, statP, q, new_confidence)
         /\ statIn' = Operation("update", v, dt, statP.current_step,
                 q # [statP EXCEPT !.current_step = q.current_step])
    /\ UNCHANGED exceptStat

\* CalibrationData::clear (calibration.rs:263-272), run by
\* start_calibration: the parameter is replaced by its default.
ApplyClear ==
    /\ statIn.op # "clear"
    /\ statP' = DefaultParameter
    /\ statS' = DefaultStatistics
    /\ statIn' = Operation("clear", 0, 0, NaN, FALSE)
    /\ UNCHANGED exceptStat

(***************************************************************************)
(* The signals of one frame through UnifiedTrackingMutator::mutate         *)
(* (common/src/mutator.rs:269-355): one expression weight, one eye         *)
(* openness and the pupil diameter of both eyes.  Weights and openness are *)
(* in tenths, pupil diameters in millimetres and normalised pupils in      *)
(* hundredths.  The gaze filters (307-310) touch none of these signals.    *)
(***************************************************************************)
Eyes == {"l", "r"}

\* A frame's signals.
Signals(w, o, l, r) ==
    [weight |-> w, openness |-> o, pupil |-> [e \in Eyes |-> IF e = "l" THEN l ELSE r]]

\* The frames an adapter or a debug override hands over.  Nothing on the way
\* from the adapter to mutate (main.rs:355-452) restricts their values.
MutFrames ==
    {Signals(5, 5, 0, 0), Signals(20, 15, 2, 0), Signals(5, 5, 0, 2),
     Signals(-5, 15, 2, 2)}

\* The values a filter or the calibration blend can produce from them.
WeightGrid == {-5, 5, 10, 20}

OpennessGrid == {5, 15}

PupilGrid == {0, 1, 2}

\* 1.0 in tenths, the upper end of clamp(0.0, 1.0) (calibration.rs:232).
WEIGHT_ONE == 10

\* 0.5 and 1.0 in hundredths (mutator.rs:346).
PUPIL_HALF == 50

PUPIL_ONE == 2 * PUPIL_HALF

\* min_pupil_l: 999.0 (mutator.rs:202).
MIN_PUPIL_START == 999

\* 0.001, the smallest span that is normalised, in thousandths (mutator.rs:342).
SPAN_MILLI == 1

\* EuroFilter::new_with_config (euro_filter.rs:36-43): nothing filtered yet.
\* Of the filter's state only x_prev bounds the next output; raw_x_prev and
\* dx_prev only move the cutoff.
EuroFilterNew == [initialized |-> FALSE, x_prev |-> 0]

\* EuroFilter::filter (euro_filter.rs:57-77): the first call passes x
\* through; a later call gives alpha * x + (1 - alpha) * x_prev with
\* alpha = 1 / (1 + tau / te) in (0, 1], a value from x_prev to x.
FilterOutputs(f, x, grid) ==
    IF ~f.initialized THEN {x}
    ELSE {y \in grid : Minimum(f.x_prev, x) <= y /\ y <= Maximum(f.x_prev, x)}

\* The filter after it returned y.
filter(f, y) == [initialized |-> TRUE, x_prev |-> y]

\* CalibrationParameter::calculate_parameter (calibration.rs:205-239): v
\* itself without data (211-213); otherwise blend * c + (1 - blend) * v with
\* c = clamp(v^e, 0, 1) and blend = confidence * sigmoid * quality, a value
\* from v to somewhere in [0, 1], and v again when that is NaN (234-236).
CalculatedValues(has, v) ==
    IF ~has THEN {v}
    ELSE {y \in WeightGrid : Minimum(v, 0) <= y /\ y <= Maximum(v, WEIGHT_ONE)}

\* Bounds that every diameter moves.
BoundsAfter_CountsZeros(lo, hi, curr) ==
    [min |-> Minimum(lo, curr), max |-> Maximum(hi, curr)]

\* mutator.rs:325-332: only a positive diameter moves the bounds.
BoundsAfter(lo, hi, curr) ==
    IF curr > 0
    THEN [min |-> Minimum(lo, curr), max |-> Maximum(hi, curr)]
    ELSE [min |-> lo, max |-> hi]

\* mutator.rs:342-347: (curr - min) / (max - min) over a span above 0.001,
\* otherwise 0.5.
Normalised(b, curr) ==
    IF 1000 * (b.max - b.min) > SPAN_MILLI
    THEN (PUPIL_ONE * (curr - b.min)) \div (b.max - b.min)
    ELSE PUPIL_HALF

\* What the steps of a mutate call were given: the weight handed to
\* update_calibration, the weight handed to the shape filter, the diameters
\* the normalisation read and the bounds it found; and the eyes whose
\* diameter was 0 in every frame the enabled mutator has been given.
Steps(ran, sampled, filtered, curr, lo, hi, zeros) ==
    [ran |-> ran, sampled |-> sampled, filtered |-> filtered,
     curr |-> curr, min |-> lo, max |-> hi, zeros |-> zeros]

\* UnifiedTrackingMutator::new (mutator.rs:173-207).
MutStart ==
    /\ shapeFilter = EuroFilterNew
    /\ opennessFilter = EuroFilterNew
    /\ pupilFilter = [e \in Eyes |-> EuroFilterNew]
    /\ min_pupil = [e \in Eyes |-> MIN_PUPIL_START]
    /\ max_pupil = [e \in Eyes |-> 0]
    /\ hasData = FALSE
    /\ mutIn = Signals(0, 0, 0, 0)
    /\ mutOut = Signals(0, 0, 0, 0)
    /\ mutObs = Steps("none", 0, 0, [e \in Eyes |-> 0], min_pupil, max_pupil,
                       Eyes)

\* mutator.rs:270-272: a disabled mutator leaves the frame as it is.
MutateDisabled ==
    /\ ~config.mutator_enabled
    /\ \E f \in MutFrames :
         /\ mutIn' = f
         /\ mutOut' = f
         /\ mutObs' = Steps("disabled", f.weight, f.weight, f.pupil,
                            min_pupil, max_pupil, mutObs.zeros)
    /\ UNCHANGED <<shapeFilter, opennessFilter, pupilFilter, min_pupil,
                   max_pupil, hasData>>
    /\ UNCHANGED exceptMut

\* The weight through the filter first and the calibration after it.
WeightSteps_SmoothingFirst(raw, has) ==
    UNION {{[sampled |-> y, filtered |-> raw, x_prev |-> y, out |-> c] :
                c \in (IF config.calibration_enabled
                       THEN CalculatedValues(has, y) ELSE {y})} :
           y \in FilterOutputs(shapeFilter, raw, WeightGrid)}

\* The weight through mutate, in the order of the code: with calibration
\* enabled raw is sampled and adjusted to c (mutator.rs:287-302), then c is
\* filtered to y (316-320), which the filter keeps and the frame gets.
WeightSteps(raw, has) ==
    UNION {{[sampled |-> raw, filtered |-> c, x_prev |-> y, out |-> y] :
                y \in FilterOutputs(shapeFilter, c, WeightGrid)} :
           c \in (IF config.calibration_enabled
                  THEN CalculatedValues(has, raw) ELSE {raw})}

\* mutate with the mutator enabled (mutator.rs:287-354).
MutateSignals ==
    /\ config.mutator_enabled
    /\ \E f \in MutFrames, learned \in BOOLEAN, oy \in OpennessGrid,
          py \in [Eyes -> PupilGrid] :
         LET has == hasData \/ (config.calibration_enabled /\ learned)
             b == [e \in Eyes |-> BoundsAfter(min_pupil[e], max_pupil[e], py[e])]
         IN  /\ hasData' = has
             /\ oy \in FilterOutputs(opennessFilter, f.openness, OpennessGrid)
             /\ opennessFilter' = filter(opennessFilter, oy)
             /\ \A e \in Eyes : py[e] \in FilterOutputs(pupilFilter[e], f.pupil[e], PupilGrid)
             /\ pupilFilter' = [e \in Eyes |-> filter(pupilFilter[e], py[e])]
             /\ min_pupil' = [e \in Eyes |-> b[e].min]
             /\ max_pupil' = [e \in Eyes |-> b[e].max]
             /\ mutIn' = f
             /\ \E ws \in WeightSteps(f.weight, has) :
                  /\ shapeFilter' = filter(shapeFilter, ws.x_prev)
                  /\ mutOut' = [weight |-> ws.out, openness |-> oy,
                                pupil |-> [e \in Eyes |-> Normalised(b[e], py[e])]]
                  /\ mutObs' = Steps("enabled", ws.sampled, ws.filtered, py,
                                     min_pupil, max_pupil,
                                     {e \in mutObs.zeros : f.pupil[e] = 0})
    /\ UNCHANGED exceptMut

(***************************************************************************)
(* eye.min_dilation and eye.max_dilation of the producer's frame under     *)
(* the update of each adapter.  The values are f32; three of them stand    *)
(* for all.                                                                *)
(***************************************************************************)
Adapters == {"livelink", "vd", "proxy", "dotnet"}

DilationValues == {0, 3, 10}

Dilation(lo, hi) == [min |-> lo, max |-> hi]

Dilations == {Dilation(lo, hi) : lo, hi \in DilationValues}

\* virtual_desktop.rs:297-298: data.eye.min_dilation = 0.0 and
\* data.eye.max_dilation = 10.0.
VD_MIN_DILATION == 0

VD_MAX_DILATION == 10

\* UnifiedEyeData::default (api/src/lib.rs:16-25): both 0.0.
AdStart ==
    /\ adapter = "livelink"
    /\ dilation = Dilation(0, 0)
    /\ hostDilation = Dilation(0, 0)
    /\ adObs = [by |-> "none", wrote |-> FALSE, pre |-> Dilation(0, 0),
                tick |-> FALSE]

\* Who updated last, whether its update reached the statements that write
\* the frame, and the dilation it found; tick turns over with every update.
Updated(wrote) ==
    adObs' = [by |-> adapter, wrote |-> wrote, pre |-> dilation,
              tick |-> ~adObs.tick]

\* An update_eye_data that leaves the two fields alone.
update_eye_data_KeepsDilation(d) == d

\* VirtualDesktopModule::update_eye_data (virtual_desktop.rs:216-299): its
\* last two statements.
update_eye_data(d) == Dilation(VD_MIN_DILATION, VD_MAX_DILATION)

\* The host process of a proxied module, or the managed module behind the
\* .NET wrapper, writes the marshaled frame.
HostWritesDilation ==
    /\ adapter \in {"proxy", "dotnet"}
    /\ \E d \in Dilations : hostDilation' = d
    /\ hostDilation' # hostDilation
    /\ UNCHANGED <<adapter, dilation, adObs>>
    /\ UNCHANGED exceptAd

\* LiveLinkModule::update (livelink.rs:515-562): update_eye and update_lips
\* write gaze, openness and weights only.
LiveLinkUpdateFrame ==
    /\ adapter = "livelink"
    /\ \E got \in BOOLEAN : Updated(got)
    /\ UNCHANGED <<adapter, dilation, hostDilation>>
    /\ UNCHANGED exceptAd

\* VirtualDesktopModule::update (virtual_desktop.rs:450-509): a valid frame
\* goes through update_eye_data (469-471).
VdUpdateFrame ==
    /\ adapter = "vd"
    /\ \E is_valid \in BOOLEAN :
         /\ dilation' = IF is_valid THEN update_eye_data(dilation) ELSE dilation
         /\ Updated(is_valid)
    /\ UNCHANGED <<adapter, hostDilation>>
    /\ UNCHANGED exceptAd

\* ProxyModule::update (proxy.rs:178-221): with the shared memory mapped,
\* the frame gets the fields of the marshaled frame (204-205).
ProxyUpdateFrame ==
    /\ adapter = "proxy"
    /\ \E mapped \in BOOLEAN :
         /\ dilation' = IF mapped THEN hostDilation ELSE dilation
         /\ Updated(mapped)
    /\ UNCHANGED <<adapter, hostDilation>>
    /\ UNCHANGED exceptAd

\* DotNetModuleWrapper::update (module_wrapper.rs:117-122): the frame is
\* marshaled (marshaling.rs:96-97), update_fn has the marshaled frame, and
\* the frame is replaced by what it left (marshaling.rs:50-51).
DotNetUpdateFrame ==
    /\ adapter = "dotnet"
    /\ \E writes \in BOOLEAN :
         LET marshaled == IF writes THEN hostDilation ELSE dilation
         IN  /\ dilation' = marshaled
             /\ hostDilation' = marshaled
    /\ Updated(TRUE)
    /\ UNCHANGED adapter
    /\ UNCHANGED exceptAd

(***************************************************************************)
(* One record of the calibration store on its way to the file              *)
(* (common/src/calibration_manager.rs:32-64).  An f32 is a finite number   *)
(* or one of NaN, inf and -inf.                                            *)
(***************************************************************************)
Finite(x) == [finite |-> TRUE, v |-> x]

NonFinite == [finite |-> FALSE, v |-> 0]

\* The f32 values a field of the store is given.
StoreValues == {Finite(0), NonFinite}

\* The fields of CalibrationParameter that serde writes (calibration.rs:
\* 46-81): the others are #[serde(skip)].
SavedFields == {"progress", "max", "mean", "std_dev", "confidence", "max_confidence"}

\* serde_json::to_writer_pretty (calibration_manager.rs:57) writes a finite
\* f32 as a number and any other as null.
ToJson(x) == [null |-> ~x.finite, v |-> x.v]

\* CalibrationParameter::default (calibration.rs:83-100).
SanStart ==
    /\ sanIn = [f \in SavedFields |-> Finite(0)]
    /\ sanOut = [saved |-> FALSE, json |-> [f \in SavedFields |-> ToJson(Finite(0))]]

\* CalibrationManager::sanitized_for_save (calibration_manager.rs:32-45):
\* max and progress are replaced by 0.0 when they are not finite.
sanitized_for_save(shape) ==
    [shape EXCEPT !.max = IF ~@.finite THEN Finite(0) ELSE @,
                  !.progress = IF ~@.finite THEN Finite(0) ELSE @]

\* The store is public data of the manager (calibration_manager.rs:10):
\* update_calibration, load_profile and callers assign its fields.
StoreChanges ==
    /\ \E f \in SavedFields, x \in StoreValues :
         /\ sanIn[f] # x
         /\ sanIn' = [sanIn EXCEPT ![f] = x]
    /\ UNCHANGED sanOut
    /\ UNCHANGED exceptSan

\* CalibrationManager::save_current_profile (calibration_manager.rs:47-64).
SaveCurrentProfile ==
    /\ sanOut' = [saved |-> TRUE,
                  json |-> [f \in SavedFields |->
                               ToJson(sanitized_for_save(sanIn)[f])]]
    /\ UNCHANGED sanIn
    /\ UNCHANGED exceptSan

\* ---------------------------------------------------------------------
\* The order in which discovery results take effect.  Every call of
\* fetch_with_retry spawns a thread of its own (service.rs:206) that tries
\* up to five times, a second apart, and sends its snapshot when an attempt
\* succeeds; ServiceRemoved sends None from the mDNS thread at once
\* (service.rs:146).  All of them send into the one channel the backend
\* drains at the start of each send (vrchat.rs:88-94), so updates are
\* installed in the order they were sent.  A fetch thread is numbered by its
\* place among the threads started; a None carries the number of threads
\* started before it.
\* ---------------------------------------------------------------------

\* Fetch threads started in one run of the model.
MaxStarts == 2

\* ServiceRemoved events in one run of the model.
MaxRemovals == 1

\* A snapshot sent by fetch thread number n.
FetchedBy(n) == [some |-> TRUE, id |-> n]

\* The None of a removal that came after n fetch threads had been started.
RemovedAfter(n) == [some |-> FALSE, id |-> n]

OrdStart ==
    /\ urlSet = FALSE
    /\ fetchThreads = <<>>
    /\ fetchesStarted = 0
    /\ update_tx = <<>>
    /\ installLog = <<>>

\* fetch_with_retry as a thread with an identity: thread::spawn at
\* service.rs:206, numbered by its start and marked with the caller.
spawn_fetch(threads, n, caller) ==
    Append(threads, [id |-> n, attempts |-> 0, by |-> caller])

\* ServiceEvent::ServiceResolved for the platform, service.rs:102-134.
OrdServiceResolved ==
    /\ fetchesStarted < MaxStarts
    /\ urlSet' = TRUE
    /\ fetchesStarted' = fetchesStarted + 1
    /\ fetchThreads' = spawn_fetch(fetchThreads, fetchesStarted + 1, "mdns")
    /\ UNCHANGED <<update_tx, installLog>>
    /\ UNCHANGED <<coreVars, exceptOrd>>

\* An avatar-change notification the listener accepts, service.rs:179-191:
\* it fetches the current url when there is one.
OrdAvatarChange ==
    /\ urlSet => fetchesStarted < MaxStarts
    /\ fetchesStarted' = IF urlSet THEN fetchesStarted + 1 ELSE fetchesStarted
    /\ fetchThreads' = IF urlSet
                       THEN spawn_fetch(fetchThreads, fetchesStarted + 1, "change")
                       ELSE fetchThreads
    /\ UNCHANGED <<urlSet, update_tx, installLog>>
    /\ UNCHANGED <<coreVars, exceptOrd>>

\* ServiceEvent::ServiceRemoved for the platform, service.rs:135-152.
OrdServiceRemoved ==
    /\ Cardinality({i \in 1..Len(update_tx) : ~update_tx[i].some})
         + Cardinality({i \in 1..Len(installLog) : ~installLog[i].some})
         < MaxRemovals
    /\ urlSet
    /\ urlSet' = FALSE
    /\ update_tx' = Append(update_tx, RemovedAfter(fetchesStarted))
    /\ UNCHANGED <<fetchThreads, fetchesStarted, installLog>>
    /\ UNCHANGED <<coreVars, exceptOrd>>

\* One attempt of one fetch thread, service.rs:207-227: success sends the
\* snapshot and ends the thread, failure sleeps and tries again, the fifth
\* failure ends the thread.
OrdFetchAttempt ==
    \E k \in 1..Len(fetchThreads) :
       LET t == fetchThreads[k]
       IN  /\ \/ /\ update_tx' = Append(update_tx, FetchedBy(t.id))
                 /\ fetchThreads' = RemoveAt(fetchThreads, k)
              \/ /\ t.attempts + 1 < max_retries
                 /\ fetchThreads' = [fetchThreads EXCEPT ![k].attempts = @ + 1]
                 /\ UNCHANGED update_tx
              \/ /\ t.attempts + 1 >= max_retries
                 /\ fetchThreads' = RemoveAt(fetchThreads, k)
                 /\ UNCHANGED update_tx
           /\ UNCHANGED <<urlSet, fetchesStarted, installLog>>
           /\ UNCHANGED <<coreVars, exceptOrd>>

\* VRChatOsc::send draining its channel, vrchat.rs:88-94: every pending
\* update is installed in turn.
OrdInstall ==
    /\ update_tx # <<>>
    /\ installLog' = installLog \o update_tx
    /\ update_tx' = <<>>
    /\ UNCHANGED <<urlSet, fetchThreads, fetchesStarted>>
    /\ UNCHANGED <<coreVars, exceptOrd>>

\* ---------------------------------------------------------------------
\* The five read/write locks of main.rs:242-259 as the consumer thread
\* and the handlers of the control surface take them.  A tick or a handler
\* call is the sequence of its lock operations; everything between them
\* touches no shared state.  A guard of Rust is released where it goes out
\* of scope: at the end of the `if let` block that took it, at the end of
\* the statement for a temporary, at the end of the function for a local.
\* ---------------------------------------------------------------------

Locks == {"debug_state", "calibration_request", "calibration_status",
          "calibration_data", "shared_data"}

\* The consumer thread and two handler calls the server runs side by side.
HttpTasks == {"http1", "http2"}

Threads == {"consumer"} \cup HttpTasks

\* lock.read() or lock.write() and the drop of its guard.
Acq(l, m) == [op |-> "acquire", lock |-> l, mode |-> m]

Rel(l, m) == [op |-> "release", lock |-> l, mode |-> m]

\* A guard taken and dropped with no other lock taken in between.
Section(l, m) == <<Acq(l, m), Rel(l, m)>>

\* One tick of the consumer, main.rs:355-482: the overrides are read
\* (355-433), the request cell is written (439-450), the status is written
\* (466-472), the calibration data is written while collecting (474-478)
\* and the snapshot is written (480-482).
ConsumerTickLocks ==
    {Section("debug_state", "read") \o Section("calibration_request", "write")
       \o Section("calibration_status", "write") \o collecting
       \o Section("shared_data", "write") :
     collecting \in {<<>>, Section("calibration_data", "write")}}

\* extensions.rs:48-61: the guard is a local and lives to the end.
debug_params_handler == {Section("debug_state", "write")}

\* extensions.rs:63-69: the guard is a temporary of the first statement.
calibration_status_handler == {Section("calibration_status", "read")}

\* extensions.rs:71-77.
calibration_data_handler == {Section("calibration_data", "read")}

\* extensions.rs:84-113 with the status guard kept to the end of the
\* function instead of dropped after the clone.
start_calibration_handler_HoldsStatus ==
    {Section("calibration_status", "read"),
     <<Acq("calibration_status", "read")>>
        \o Section("calibration_request", "write")
        \o <<Rel("calibration_status", "read")>>}

\* extensions.rs:84-113: the status is cloned under a temporary guard (88);
\* unless the call is refused, the request cell is written in a block of
\* its own (104-106).
start_calibration_handler ==
    {Section("calibration_status", "read"),
     Section("calibration_status", "read")
        \o Section("calibration_request", "write")}

\* The routes of get_router, extensions.rs:36-46.
Handlers ==
    debug_params_handler \cup calibration_status_handler
        \cup calibration_data_handler \cup start_calibration_handler

\* main.rs:242-259: no lock is held when the threads start.
LockStart ==
    /\ guards = [t \in Threads |-> {}]
    /\ todo = [t \in Threads |-> <<>>]

\* std::sync::RwLock: a reader gets in unless a writer holds the lock, a
\* writer only when nobody holds it.
Available(l, m) ==
    \A t \in Threads : \A g \in guards[t] :
        g.lock = l => (m = "read" /\ g.mode = "read")

\* The thread stands at a read() or write() that cannot return now.
Blocked(t) ==
    /\ todo[t] # <<>>
    /\ Head(todo[t]).op = "acquire"
    /\ ~Available(Head(todo[t]).lock, Head(todo[t]).mode)

\* The consumer begins its next tick, main.rs:345-353.
ConsumerTickBegin ==
    /\ todo["consumer"] = <<>>
    /\ \E locks \in ConsumerTickLocks :
          todo' = [todo EXCEPT !["consumer"] = locks]
    /\ UNCHANGED guards
    /\ UNCHANGED <<coreVars, exceptLock>>

\* A request is routed to its handler.
HandlerCall ==
    \E t \in HttpTasks :
       /\ todo[t] = <<>>
       /\ \E locks \in Handlers : todo' = [todo EXCEPT ![t] = locks]
       /\ UNCHANGED guards
       /\ UNCHANGED <<coreVars, exceptLock>>

\* read() or write() returns its guard.
LockAcquire ==
    \E t \in Threads :
       /\ todo[t] # <<>>
       /\ Head(todo[t]).op = "acquire"
       /\ Available(Head(todo[t]).lock, Head(todo[t]).mode)
       /\ guards' = [guards EXCEPT ![t] =
                        @ \cup {[lock |-> Head(todo[t]).lock,
                                 mode |-> Head(todo[t]).mode]}]
       /\ todo' = [todo EXCEPT ![t] = Tail(@)]
       /\ UNCHANGED <<coreVars, exceptLock>>

\* A guard goes out of scope.
LockRelease ==
    \E t \in Threads :
       /\ todo[t] # <<>>
       /\ Head(todo[t]).op = "release"
       /\ guards' = [guards EXCEPT ![t] =
                        @ \ {[lock |-> Head(todo[t]).lock,
                              mode |-> Head(todo[t]).mode]}]
       /\ todo' = [todo EXCEPT ![t] = Tail(@)]
       /\ UNCHANGED <<coreVars, exceptLock>>

\* The start of the groups beside the pipeline.
SideStart ==
    /\ RunStart /\ SockStart /\ VdStart /\ PxStart /\ StatStart
    /\ MutStart /\ AdStart /\ SanStart /\ OrdStart /\ LockStart

(***************************************************************************)
(* Specifications                                                          *)
(***************************************************************************)

InitPipe ==
    /\ PipeStart /\ RegStart /\ OscStart /\ CalStart /\ DiscStart /\ SideStart /\ FnStart
    /\ config = DefaultConfig

NextPipe ==
    \/ ProducerUpdate
    \/ ProducerTrySend
    \/ ProducerSleep
    \/ ConsumerRecv
    \/ ConsumerRecvTimeout
    \/ ConsumerMutate
    \/ ConsumerPublish
    \/ ConsumerSend
    \/ ConsumerLocal

SpecPipe == InitPipe /\ [][NextPipe]_vars

InitReg ==
    /\ PipeStart /\ llSocket /\ RegStart /\ OscStart
    /\ CalStart /\ DiscStart /\ SideStart /\ FnStart /\ config = DefaultConfig

NextReg ==
    \/ RegistryReset
    \/ RegistryProcess

SpecReg == InitReg /\ [][NextReg]_vars

InitOsc ==
    /\ PipeStart /\ llSocket /\ RegStart /\ OscStart
    /\ CalStart /\ DiscStart /\ SideStart /\ FnStart /\ config = DefaultConfig

NextOsc ==
    \/ DiscoveryPublish
    \/ BackendSend
    \/ OscRegistryReset
    \/ OscRegistryProcess

SpecOsc == InitOsc /\ [][NextOsc]_vars

InitCal ==
    /\ PipeStart /\ llSocket /\ RegStart /\ OscStart
    /\ CalStart /\ DiscStart /\ SideStart /\ FnStart

NextCal ==
    \/ StartCalibrationHandler
    \/ ConsumerRequest
    \/ ConsumerCalibrate

SpecCal == InitCal /\ [][NextCal]_vars

InitCtl ==
    /\ PipeStart /\ llSocket /\ RegStart /\ OscStart
    /\ CalStart /\ DiscStart /\ SideStart /\ FnStart

NextCtl ==
    \/ CtlStartCalibrationHandler
    \/ ConsumerRequest
    \/ CtlConsumerCalibrate

SpecCtl == InitCtl /\ [][NextCtl]_vars

InitDisc ==
    /\ PipeStart /\ llSocket /\ RegStart /\ OscStart
    /\ CalStart /\ DiscStart /\ SideStart /\ FnStart /\ config = DefaultConfig

NextDisc ==
    \/ ServiceResolved
    \/ ServiceRemoved
    \/ AvatarChangeSignal
    \/ Elapse
    \/ FetchAttempt
    \/ BackendSend

SpecDisc == InitDisc /\ [][NextDisc]_vars

InitParam ==
    /\ PipeStart /\ llSocket /\ RegStart /\ OscStart
    /\ CalStart /\ DiscStart /\ SideStart /\ config = DefaultConfig
    /\ fnIn \in MatchInputs \cup BinaryInputs
    /\ fnOut = None

NextParam ==
    \/ ApplyMatchesAddress
    \/ ApplyProcessBinary

SpecParam == InitParam /\ [][NextParam]_vars


-----------------------------------------------------------------------------
InitRun ==
    /\ PipeStart /\ llSocket /\ RegStart /\ OscStart
    /\ CalStart /\ DiscStart /\ SideStart /\ FnStart /\ config = DefaultConfig

NextRun ==
    \/ CtrlC
    \/ \E l \in Loops : FlagLoopTest(l)
    \/ \E l \in Loops : PlainLoopBegin(l)
    \/ \E l \in Loops : LoopBodyEnd(l)
    \/ MainReturn

SpecRun == InitRun /\ [][NextRun]_vars

InitSock ==
    /\ PipeStart /\ llSocket /\ RegStart /\ OscStart
    /\ CalStart /\ DiscStart /\ SideStart /\ FnStart /\ config = DefaultConfig

NextSock ==
    \/ DiscoveryPublish
    \/ SockBackendSend

SpecSock == InitSock /\ [][NextSock]_vars

InitVd ==
    /\ PipeStart /\ llSocket /\ RegStart /\ OscStart
    /\ CalStart /\ DiscStart /\ SideStart /\ FnStart /\ config = DefaultConfig

NextVd ==
    \/ VdPeerChange
    \/ VdUpdate

SpecVd == InitVd /\ [][NextVd]_vars

InitPx ==
    /\ PipeStart /\ llSocket /\ RegStart /\ OscStart
    /\ CalStart /\ DiscStart /\ SideStart /\ FnStart /\ config = DefaultConfig

NextPx ==
    \/ HostBeat
    \/ HostExit
    \/ PxUpdate

SpecPx == InitPx /\ [][NextPx]_vars

InitStat ==
    /\ PipeStart /\ llSocket /\ RegStart /\ OscStart
    /\ CalStart /\ DiscStart /\ SideStart /\ FnStart
    /\ \E c \in BOOLEAN :
         config = [mutator_enabled |-> TRUE, calibration_enabled |-> TRUE,
                   continuous |-> c]

NextStat ==
    \/ ApplyUpdateCalibration
    \/ ApplyClear

SpecStat == InitStat /\ [][NextStat]_vars

\* The signals of a frame through mutate, under every configuration of the
\* mutator and the calibration switch.
InitMut ==
    /\ PipeStart /\ llSocket /\ RegStart /\ OscStart
    /\ CalStart /\ DiscStart /\ SideStart /\ FnStart
    /\ \E me \in BOOLEAN, ce \in BOOLEAN :
         config = [mutator_enabled |-> me, calibration_enabled |-> ce,
                   continuous |-> FALSE]

NextMut ==
    \/ MutateDisabled
    \/ MutateSignals

SpecMut == InitMut /\ [][NextMut]_vars

\* The frame's dilation fields under each adapter, one adapter for a run.
InitAd ==
    /\ PipeStart /\ llSocket /\ RegStart /\ OscStart
    /\ CalStart /\ DiscStart /\ FnStart /\ config = DefaultConfig
    /\ RunStart /\ SockStart /\ VdStart /\ PxStart /\ StatStart /\ MutStart
    /\ SanStart /\ OrdStart /\ LockStart
    /\ adapter \in Adapters
    /\ dilation = Dilation(0, 0)
    /\ hostDilation = Dilation(0, 0)
    /\ adObs = [by |-> "none", wrote |-> FALSE, pre |-> Dilation(0, 0),
                tick |-> FALSE]

NextAd ==
    \/ HostWritesDilation
    \/ LiveLinkUpdateFrame
    \/ VdUpdateFrame
    \/ ProxyUpdateFrame
    \/ DotNetUpdateFrame

SpecAd == InitAd /\ [][NextAd]_vars

\* Records of the calibration store, changed and saved.
InitSan ==
    /\ PipeStart /\ llSocket /\ RegStart /\ OscStart
    /\ CalStart /\ DiscStart /\ SideStart /\ FnStart
    /\ config = DefaultConfig

NextSan ==
    \/ StoreChanges
    \/ SaveCurrentProfile

SpecSan == InitSan /\ [][NextSan]_vars

\* The fetch threads of discovery, the removal of the service and the
\* backend installing what they send.
InitOrd ==
    /\ PipeStart /\ llSocket /\ RegStart /\ OscStart
    /\ CalStart /\ DiscStart /\ SideStart /\ FnStart /\ config = DefaultConfig

NextOrd ==
    \/ OrdServiceResolved
    \/ OrdAvatarChange
    \/ OrdServiceRemoved
    \/ OrdFetchAttempt
    \/ OrdInstall

SpecOrd == InitOrd /\ [][NextOrd]_vars

\* The consumer's ticks and two handler calls at a time on the shared locks.
InitLock ==
    /\ PipeStart /\ llSocket /\ RegStart /\ OscStart
    /\ CalStart /\ DiscStart /\ SideStart /\ FnStart /\ config = DefaultConfig

NextLock ==
    \/ ConsumerTickBegin
    \/ HandlerCall
    \/ LockAcquire
    \/ LockRelease

SpecLock == InitLock /\ [][NextLock]_vars

(***************************************************************************)
(* Claims about the pipeline (checked under SpecPipe)                      *)
(***************************************************************************)

\* C1: the producer never blocks when handing a frame over: the channel
\* holds at most one frame at every moment, and whenever the producer stands
\* at its send step that step can be taken, however full the channel is.
C1_ProducerNeverBlocks ==
    /\ Len(chan) <= ChannelCapacity
    /\ ppc = "send" => ENABLED ProducerTrySend

\* C1 witness: a send step has completed although the channel was full.
C1_Witness ==
    /\ ppc = "pace"
    /\ offer # None
    /\ offer.full
    /\ Len(chan) = ChannelCapacity

\* C2 as stated: after an offer that met a full channel, the frame the
\* consumer receives next is the frame of that offer (the queued one was
\* dropped).
C2_Original ==
    (recvInfo # None /\ ~recvInfo.timeout /\ recvInfo.offer # None
        /\ recvInfo.offer.full)
    => recvInfo.frame = recvInfo.offer.frame

\* C2 amended: an offer that meets a full channel is itself dropped; the
\* queued frame stays in the channel and is the frame the consumer receives
\* next.
C2_OverflowDropsOffered ==
    /\ (offer # None /\ offer.full /\ ppc = "pace")
            => (chan = offer.queued \/ chan = <<>>)
    /\ (recvInfo # None /\ ~recvInfo.timeout /\ recvInfo.offer # None
            /\ recvInfo.offer.full)
            => recvInfo.frame = Head(recvInfo.offer.queued)

\* C2 witness: the consumer received the queued frame after a newer, different
\* frame had been offered and refused.
C2_Witness ==
    /\ recvInfo # None
    /\ ~recvInfo.timeout
    /\ recvInfo.offer # None
    /\ recvInfo.offer.full
    /\ recvInfo.frame # recvInfo.offer.frame

\* C3: in every consumer tick the pipeline runs before the publish and the
\* publish before the backend send: the snapshot never holds an unmutated
\* frame, every frame sent was mutated, and when a frame is sent the snapshot
\* already holds it.
C3_PipelinePublishSend ==
    /\ shared_data = DefaultFrame \/ shared_data.mutated
    /\ lastSent # None =>
          /\ lastSent.mutated
          /\ \/ shared_data = lastSent
             \/ CStep = "send" /\ shared_data = received_data

\* C3 witness: a frame that came from the producer was sent and is the
\* published snapshot.
C3_Witness ==
    /\ lastSent # None
    /\ lastSent.seq > 0
    /\ shared_data = lastSent

\* C4 as stated: update returns Ok only when it wrote new data, so the
\* producer reaches its send step only on a tick on which the adapter wrote.
C4_OkOnlyWithNewData ==
    /\ any_updated => wroteNew
    /\ ppc = "send" => wroteNew

-----------------------------------------------------------------------------
(***************************************************************************)
(* Claims about what is transmitted (checked under SpecOsc)                *)
(***************************************************************************)

-----------------------------------------------------------------------------
(***************************************************************************)
(* Claims about the parameter registry (checked under SpecReg)             *)
(***************************************************************************)

\* The scalar parts of a registry entry, each with the tag of its messages.
ScalarParts(e) ==
    IF e.type = "EParam"
    THEN {<<"bool", e.bool_param>>, <<"float", e.float_param>>}
    ELSE {<<"scalar", e.scalar>>}

\* The messages of the last process call that came from part `part` of
\* parameter i.
OutOf(i, part) == {m \in regOut : m.param = i /\ m.part = part}

\* value is within the suppression rule of the cached value of p
WithinDelta(p, value) ==
    /\ p.last_value # None
    /\ IF p.kind = "Float"
       THEN Abs(value - p.last_value.v) < EPSILON
       ELSE value = p.last_value.v

\* C6: two consecutive process calls with identical frames and no reset in
\* between produce no message on the second call, for every parameter; and a
\* scalar parameter emits nothing when the new value is within the
\* suppression rule of its cached value (floats: |v - last| < 1e-5, bools
\* and ints: equal).
C6_DeltaSuppression ==
    /\ (procRun = 2 /\ curFrame = prevFrame) => regOut = {}
    /\ regPre # None =>
          \A i \in DOMAIN regPre.v : \A sp \in ScalarParts(regPre.v[i]) :
              WithinDelta(sp[2], GetValue(sp[2].get_value, curFrame.v))
                  => OutOf(i, sp[1]) = {}

\* C6 witness: a second process call with the same frame produced nothing
\* while the bool, float, binary, send-on-load and int parameters were all
\* relevant.
C6_Witness ==
    /\ procRun = 2
    /\ curFrame = prevFrame
    /\ regOut = {}
    /\ parameters[1].bool_param.relevant
    /\ parameters[1].float_param.relevant
    /\ parameters[1].binary_param.v.relevant
    /\ parameters[2].scalar.relevant
    /\ parameters[3].scalar.relevant

\* C7: for the send-on-load parameter, every reset that resolved an address
\* arms the forced send; the first process call after it emits the value at
\* every resolved address; the next process call with an unchanged frame
\* emits nothing.
C7_SendOnLoad ==
    LET p == parameters[2].scalar IN
    /\ (procRun = 0 /\ regSnap # None /\ p.relevant)
          => p.needs_initial_send /\ p.addresses # {}
    /\ (procRun = 1 /\ p.relevant)
          => /\ ~p.needs_initial_send
             /\ OutOf(2, "scalar") =
                  Tagged(2, "scalar",
                         Messages(p.addresses, p.kind,
                                  GetValue(p.get_value, curFrame.v)))
             /\ OutOf(2, "scalar") # {}
    /\ (procRun = 2 /\ curFrame = prevFrame) => OutOf(2, "scalar") = {}

\* C7 witness: the forced send happened on the first process call after a
\* reset that found the parameter's cache filled by an earlier send.
C7_Witness ==
    /\ procRun = 1
    /\ resetOverCache
    /\ parameters[2].scalar.relevant
    /\ OutOf(2, "scalar") # {}

\* What a reset resolves for a registry entry, and what it caches.
Resolved(e) ==
    IF e.type = "EParam"
    THEN <<e.bool_param.addresses, e.bool_param.relevant,
           e.float_param.addresses, e.float_param.relevant,
           e.binary_param.v.bit_params, e.binary_param.v.negative_param,
           e.binary_param.v.negative_relevant, e.binary_param.v.relevant,
           IF e.binary_param.v.relevant
           THEN e.binary_param.v.max_binary_int ELSE 0>>
    ELSE <<e.scalar.addresses, e.scalar.relevant>>

Cached(e) ==
    IF e.type = "EParam"
    THEN <<e.bool_param.last_value, e.bool_param.needs_initial_send,
           e.float_param.last_value, e.float_param.needs_initial_send,
           e.binary_param.v.last_bits>>
    ELSE <<e.scalar.last_value, e.scalar.needs_initial_send>>

-----------------------------------------------------------------------------
(***************************************************************************)
(* Claims about the calibration state machine (checked under SpecCal)      *)
(***************************************************************************)

\* C9: while the state is Collecting, every mutate call advances the timer
\* by dt, and the state moves to Calibrated exactly on the mutate call at
\* which the accumulated timer first satisfies timer >= duration.  Stated
\* after each tick of the consumer: if its mutate call found
\* Collecting{timer, duration}, the state is Calibrated when
\* timer + dt >= duration and Collecting{timer + dt, duration} otherwise.
C9_TimerAdvancesOnEveryMutate ==
    (calpc = "request" /\ mutPre # None) =>
        LET found == mutPre.v.found
            timer == found.timer + mutPre.v.dt
        IN  calibration_state = IF timer >= found.duration THEN Calibrated
                                ELSE Collecting(timer, found.duration)

\* The buffers, indices, step and statistics of every shape are the
\* defaults.
Cleared == \A s \in Shapes : shapes[s] = DefaultParameter

\* No sample in memory, and no statistic computed in memory, stems from
\* before the latest entry into Collecting.
NothingOld ==
    \A s \in Shapes :
        /\ \A i \in 1..POINTS : ~shapes[s].data_points[i].old
        /\ shapes[s].computed => ~shapes[s].max_old

\* C10 as stated: on every entry to Collecting every calibration parameter
\* is cleared before the first sample of the new collection is taken, so
\* that no sample accepted before the entry contributes to statistics
\* computed afterwards.
C10_Original ==
    /\ (entered /\ calpc = "mutate") => Cleared
    /\ NothingOld

\* C10, amended: on every entry to Collecting every calibration parameter
\* is cleared before the first sample of the new collection is taken, and
\* no sample accepted before the entry contributes to statistics computed
\* afterwards unless switch_profile has loaded, since the entry, a stored
\* profile whose statistics stem from such samples.
C10_ClearedOnEntry ==
    /\ (entered /\ calpc = "mutate") => Cleared
    /\ ~loadedOld => NothingOld

\* A collection under way whose statistics were computed from its own
\* samples, while a profile file holds statistics of samples accepted
\* before the entry, and no such profile was loaded since.
C10_Witness ==
    /\ calibration_state.state = "Collecting"
    /\ ~loadedOld
    /\ \A s \in Shapes : shapes[s].computed /\ shapes[s].max > 0
    /\ \E id \in ProfileIds :
          profiles[id] # None /\ \E s \in Shapes : profiles[id].v[s].max_old

-----------------------------------------------------------------------------
(***************************************************************************)
(* Claims about the control surface (checked under SpecCtl)                *)
(***************************************************************************)

\* The duration a payload asks for: its own, or the default.
Requested(payload) == IF payload = None THEN DefaultDuration ELSE payload.v

\* C11 as stated: a request posted while the state was not Collecting makes
\* the consumer enter Collecting with the duration asked for, or with 30 s.
C11_Original ==
    (calpc = "mutate" /\ taken # None /\ taken.v.found.state # "Collecting")
        => calibration_state = Collecting(0, Requested(taken.v.payload))

\* C11: a POST handled while the published status is not calibrating is
\* answered starting and leaves in the cell the duration it asked for (30 s
\* when it names none) raised to at least 1 s; and when calibration is
\* enabled and the consumer takes a request up in Uncalibrated or Calibrated,
\* it enters Collecting at timer 0 with the duration of the request that was
\* written last.
C11_StartEntersCollecting ==
    /\ (lastPost # None /\ ~calibration_status)
           => /\ lastPost.v.answer = "starting"
              /\ calibration_request # None
    /\ calibration_request # None
           => /\ posted # None
              /\ calibration_request = Some(Maximum(Requested(posted.v), 1))
    /\ ( /\ calpc = "mutate"
         /\ taken # None
         /\ config.calibration_enabled
         /\ taken.v.found.state \in {"Uncalibrated", "Calibrated"} )
           => calibration_state =
                  Collecting(0, Maximum(Requested(taken.v.payload), 1))

\* A request without a duration was taken up out of Calibrated and a new
\* collection of 30 s has begun.
C11_Witness ==
    /\ calpc = "mutate"
    /\ taken # None
    /\ taken.v.payload = None
    /\ taken.v.found = Calibrated
    /\ config.calibration_enabled
    /\ calibration_state = Collecting(0, DefaultDuration)

\* C12 as stated: a POST that arrives while the state is Collecting is
\* answered already_calibrating.
C12_Original ==
    (lastPost # None /\ lastPost.v.collecting)
        => lastPost.v.answer = "already_calibrating"

\* C12: a POST handled while the published status says calibrating is
\* answered already_calibrating and leaves the request cell as it was; and
\* whatever is posted, a collection that is running keeps its duration and
\* its timer never goes back: it is neither restarted nor re-timed.
C12_RefusedWhileCalibrating ==
    /\ []((lastPost # None /\ calibration_status)
              => lastPost.v.answer = "already_calibrating")
    /\ [][(calibration_status /\ calpc' = calpc)
              => calibration_request' = calibration_request]_vars
    /\ [][(calibration_state.state = "Collecting"
             /\ calibration_state'.state = "Collecting")
              => /\ calibration_state'.duration = calibration_state.duration
                 /\ calibration_state'.timer >= calibration_state.timer]_vars

\* A POST was refused while a collection was under way.
C12_Witness ==
    /\ lastPost # None
    /\ lastPost.v.answer = "already_calibrating"
    /\ calibration_state.state = "Collecting"
    /\ calibration_state.timer > 0

\* The request step of the consumer has just been taken.
RequestStepTaken == calpc = "request" /\ calpc' = "mutate"

\* C13: the consumer's request step leaves the request cell None, whether or
\* not it started a calibration; Collecting is entered only by a request step
\* that found a request in the cell; and a step that finds the cell None
\* changes nothing of the calibration: one request, at most one entry.
C13_RequestConsumedOnce ==
    /\ [][RequestStepTaken => calibration_request' = None]_vars
    /\ [][(calibration_state.state # "Collecting"
             /\ calibration_state'.state = "Collecting")
              => /\ RequestStepTaken
                 /\ calibration_request # None
                 /\ calibration_request' = None]_vars
    /\ [][(RequestStepTaken /\ calibration_request = None)
              => /\ calibration_state' = calibration_state
                 /\ shapes' = shapes]_vars

\* A request has started a collection and is gone from the cell; the
\* collection's first mutate is still to come.
C13_Witness ==
    /\ entered
    /\ calpc = "mutate"
    /\ calibration_request = None
    /\ calibration_state.state = "Collecting"
    /\ calibration_state.timer = 0

-----------------------------------------------------------------------------
(***************************************************************************)
(* Claims about the discovery service (checked under SpecDisc)             *)
(***************************************************************************)

\* C14: a notification that the change listener takes less than 500 ms
\* after the last accepted one is dropped: it starts no fetch and leaves the
\* listener's clock alone.  Every other notification (the first one, or one
\* 500 ms or more after the last accepted one) is accepted: the clock
\* restarts and a fetch of the current url is started, provided a url is
\* known.  So of two notifications 100 ms apart the second starts no fetch,
\* and of two 600 ms apart both do.
C14_Debounce ==
    lastNotif # None =>
        LET n == lastNotif.v
            accepted == n.gap = None \/ n.gap.v >= DEBOUNCE_MS
        IN  /\ n.clock = IF accepted THEN Some(0) ELSE n.gap
            /\ n.spawned = (accepted /\ n.known)
            /\ (n.known /\ n.gap = Some(100)) => ~n.spawned
            /\ (n.known /\ n.gap = Some(600)) => n.spawned

\* A notification came 100 ms after an accepted one, with the url known,
\* and was dropped.
C14_Witness ==
    /\ lastNotif # None
    /\ lastNotif.v.gap = Some(100)
    /\ lastNotif.v.known
    /\ ~lastNotif.v.spawned
    /\ last_fetch_time = Some(100)

\* A fetch thread has ended in this step.
FetchEnded == Len(fetches') < Len(fetches)

\* C15: a fetch thread makes at most 5 attempts; it ends either with its
\* first success, sending exactly that one result, or after the 5th failed
\* attempt, and then it sends nothing: the backend's pending updates and the
\* snapshot it has installed are as before, and a send that finds no update
\* keeps the installed snapshot.
C15_AtMostFiveAttempts ==
    /\ [](\A k \in 1..Len(fetches) : fetches[k] < max_retries)
    /\ [](lastFetch # None
            => /\ lastFetch.v.attempts <= max_retries
               /\ ~lastFetch.v.delivered => lastFetch.v.attempts = max_retries)
    /\ [][FetchEnded =>
            /\ lastFetch' # None
            /\ IF lastFetch'.v.delivered
               THEN /\ Len(query_rx') = Len(query_rx) + 1
                    /\ query_rx'[Len(query_rx')] # None
                    /\ SubSeq(query_rx', 1, Len(query_rx)) = query_rx
               ELSE query_rx' = query_rx
            /\ allowed_parameters' = allowed_parameters]_vars
    /\ [][query_rx = <<>> => allowed_parameters' = allowed_parameters]_vars

\* A fetch has failed five times and ended while a snapshot installed
\* earlier is still in effect and nothing is pending.
C15_Witness ==
    /\ lastFetch = Some([attempts |-> max_retries, delivered |-> FALSE])
    /\ allowed_parameters # None
    /\ query_rx = <<>>
    /\ fetches = <<>>

\* C16 as stated: once the None of a removal is installed and until a fetch
\* succeeds, a send emits no parameter message.
C16_Original ==
    ( /\ removed
      /\ query_rx = <<>>
      /\ allowed_parameters = None
      /\ oscOut # None )
        => oscOut.v = {}

-----------------------------------------------------------------------------
(***************************************************************************)
(* Claims about the parameter functions (checked under SpecParam)          *)
(***************************************************************************)

\* The position after the last "/" of s, 0 when it has none.
LastSlash(s) ==
    IF \E i \in 1..Len(s) : s[i] = "/"
    THEN CHOOSE i \in 1..Len(s) :
            s[i] = "/" /\ \A j \in (i + 1)..Len(s) : s[j] # "/"
    ELSE 0

\* 'v' followed by one or more digits
IsVersion(seg) ==
    /\ Len(seg) >= 2
    /\ seg[1] = "v"
    /\ \A i \in 2..Len(seg) : IsAsciiDigit(seg[i])

\* What comes after the parameter prefix, and what comes before a trailing
\* /name in it.
Remainder(addr) == Skip(addr, Len(DEFAULT_PREFIX))

BeforeName(name, addr) ==
    SubSeq(Remainder(addr), 1, Len(Remainder(addr)) - Len(name) - 1)

\* The path segment that immediately precedes the trailing /name.
PrecedingSegment(name, addr) ==
    Skip(BeforeName(name, addr), LastSlash(BeforeName(name, addr)))

\* C17: matches(name, addr) is true if and only if addr begins with
\* /avatar/parameters/ and the remainder either equals name, or ends with
\* /name where the path segment immediately before that trailing /name is
\* not 'v' followed by one or more digits.
C17_MatchesIffNoVersionSegment ==
    (fnIn.fn = "matches_address" /\ fnOut # None) =>
        fnOut.v =
            /\ StartsWith(fnIn.addr, DEFAULT_PREFIX)
            /\ \/ Remainder(fnIn.addr) = fnIn.name
               \/ /\ EndsWith(Remainder(fnIn.addr), <<"/">> \o fnIn.name)
                  /\ ~IsVersion(PrecedingSegment(fnIn.name, fnIn.addr))

-----------------------------------------------------------------------------
(***************************************************************************)
(* Further claims about the registry (checked under SpecReg)               *)
(***************************************************************************)

\* The scalar parameters of the registry, those inside an EParam included.
ScalarsOf(ps) ==
    UNION {IF ps[i].type = "EParam"
           THEN {ps[i].bool_param, ps[i].float_param}
           ELSE {ps[i].scalar} : i \in DOMAIN ps}

\* /avatar/parameters/FT/{name}
Synthetic(p) == DEFAULT_PREFIX \o FT_PREFIX \o p.name

\* C18: after a reset in which at least one address matched a scalar
\* parameter (by name and by type), its address list holds an address with
\* the FT segment: when no match contains /FT/ the list is the matches and
\* exactly one more address, the synthetic /avatar/parameters/FT/{name}; when
\* a match contains it the list is the matches and nothing else.
C18_FtVariantReached ==
    regSnap # None =>
        \A p \in ScalarsOf(parameters) :
            LET matched == Compatible(p, regSnap.v)
                has_ft == \E a \in matched : Contains(a, FT_SEGMENT)
            IN  matched # {} =>
                    /\ \E a \in p.addresses : Contains(a, FT_SEGMENT)
                    /\ ~has_ft =>
                          /\ p.addresses = matched \cup {Synthetic(p)}
                          /\ Cardinality(p.addresses) = Cardinality(matched) + 1
                    /\ has_ft => p.addresses = matched

\* The avatar advertised only the plain address: the float parameter
\* resolved it and the synthetic FT address.
C18_Witness ==
    /\ regSnap # None
    /\ regSnap.v.avatar_params = {AddrPlain}
    /\ parameters[2].scalar.addresses = {AddrPlain, AddrFT}
    /\ procRun = 0

-----------------------------------------------------------------------------
(***************************************************************************)
(* Claims about process_binary (checked under SpecParam)                   *)
(***************************************************************************)

\* num / den rounded to the nearest integer, halves upwards; num >= 0.
RoundDiv(num, den) == (2 * num + den) \div (2 * den)

\* Bit k of the integer n.
BitOf(n, k) == ((n \div (2^k)) % 2) = 1

\* The input is a value strictly inside the saturation threshold, given to
\* process_binary.
BelowSaturation ==
    /\ fnIn.fn = "process_binary"
    /\ fnOut # None
    /\ Abs(fnIn.value) < UNIT - EPSILON

\* C19 as stated: the address with suffix 2^k is sent bit k of the integer
\* round(|v| * 2^K).
C19_Original ==
    BelowSaturation =>
        fnOut.v = BitOf(RoundDiv(Abs(fnIn.value) * 2^fnIn.K, UNIT),
                        fnIn.binary_index)

\* C19: for a value below the saturation threshold the address with suffix
\* 2^k is sent bit k of the integer part of |v| * 2^K (the product is
\* truncated, not rounded), provided v is not negative or the Negative
\* address was discovered; for a negative v without a Negative address every
\* bit is sent false.
C19_BitOfTruncatedProduct ==
    BelowSaturation =>
        fnOut.v =
            IF fnIn.value < 0 /\ ~fnIn.negative_relevant THEN FALSE
            ELSE BitOf((Abs(fnIn.value) * 2^fnIn.K) \div UNIT,
                       fnIn.binary_index)

\* 0.6 with two bits: 0.6 * 4 = 2.4, so the bit of suffix 2 is sent true and
\* (checked in the same way) the bit of suffix 1 false.
C19_Witness ==
    /\ fnIn.fn = "process_binary"
    /\ fnIn.K = 2
    /\ fnIn.value = (6 * UNIT) \div 10
    /\ fnIn.binary_index = 1
    /\ fnOut = Some(TRUE)

-----------------------------------------------------------------------------
(***************************************************************************)
(* Further claims about the pipeline (checked under SpecPipe)              *)
(***************************************************************************)

\* The place of a statement in the consumer's iteration.
PosOf(step) == CHOOSE i \in 1..Len(ConsumerOrder) : ConsumerOrder[i] = step

\* The consumer's iteration is past the statement; at "recv" the whole of
\* the last iteration is behind it.
Past(step) == cpc = 1 \/ cpc > PosOf(step)

\* C20: when recv_timeout returns without a frame the iteration goes on with
\* a default frame whose eye openness is 1.0 on both sides, and goes through
\* every later statement: the frame is mutated, the snapshot holds it once
\* the publish is behind, and the backend was handed it once the send is.
C20_TimeoutTickRunsThrough ==
    (recvInfo # None /\ recvInfo.timeout) =>
        /\ recvInfo.frame.seq = 0
        /\ recvInfo.frame.openness = 1
        /\ received_data.seq = 0
        /\ received_data.openness = 1
        /\ received_data.mutated = Past("mutate")
        /\ Past("publish") => shared_data = received_data
        /\ Past("send") => lastSent = received_data

\* An iteration that began with a timeout is complete: the synthesised
\* frame was mutated, published and sent.
C20_Witness ==
    /\ recvInfo # None
    /\ recvInfo.timeout
    /\ cpc = 1
    /\ lastSent # None
    /\ lastSent.seq = 0
    /\ lastSent.openness = 1
    /\ lastSent.mutated
    /\ shared_data = lastSent

\* C21 as stated: the frame the adapter is handed at the start of a tick is
\* a default-initialised one, holding nothing an earlier tick wrote.
C21_Original ==
    ppc = "update" => data.seq = 0

\* C21: the producer's frame is default-initialised once, before the loop,
\* and kept from tick to tick: a tick on which the adapter writes leaves that
\* tick's values in it, a tick on which it does not leaves the frame's values
\* as the earlier ticks wrote them, and no other step of the loop resets it.
C21_FrameKeptAcrossTicks ==
    /\ [][(ptick' # ptick /\ wroteNew') => data'.seq = ptick']_vars
    /\ [][(ptick' # ptick /\ ~wroteNew')
              => /\ data'.seq = data.seq
                 /\ data'.openness = data.openness]_vars
    /\ [][ptick' = ptick => data' = data]_vars

\* The adapter is about to be handed, two ticks later, the frame it wrote.
C21_Witness ==
    /\ ppc = "update"
    /\ data.seq > 0
    /\ data.seq < ptick

(***************************************************************************)
(* Claims about cancellation (checked under SpecRun)                       *)
(***************************************************************************)

\* C22 as stated: every one of the five loops looks at the running flag
\* before each iteration, so none begins an iteration once it is cleared.
C22_Original ==
    \A l \in Loops : afterClear[l] = 0

\* C22: the producer loop and the consumer loop test the flag before every
\* iteration: with the flag clear they begin no iteration and they end only
\* with the flag clear.  The browse loop, the change loop and the receive
\* loop never end while the process lives.
C22_ProducerAndConsumerCheckFlag ==
    /\ \A l \in FlagLoops :
         /\ afterClear[l] = 0
         /\ loopAt[l] = "done" => ~running
    /\ \A l \in Loops \ FlagLoops : loopAt[l] # "done"

\* Producer and consumer have ended on the cleared flag while the browse,
\* change and receive loops have each begun iterations after it.
C22_Witness ==
    /\ ~running
    /\ \A l \in FlagLoops : loopAt[l] = "done"
    /\ \A l \in Loops \ FlagLoops : afterClear[l] > 0

\* C23: when the adapter could not be initialised (LiveLink holds no
\* socket) the producer loop does not run: update is never called on it.
C23_InitFailureIsFatal ==
    ~llSocket => ptick = 0

(***************************************************************************)
(* Claims about the backend's sending socket (checked under SpecSock)      *)
(***************************************************************************)

\* C24: a send whose send_to failed leaves the socket cell empty, so the
\* next send that has a bundle binds a new socket before it transmits: the
\* cell never holds a socket a send_to has failed on, a send that succeeded
\* used the socket the cell holds, and a send that found the cell empty
\* either transmitted on a socket bound by itself or returned the error of
\* its bind, leaving the cell empty for the send after it.
C24_RebindAfterSendFailure ==
    /\ [](/\ sendResult = "send_err" => oscSocket = None
          /\ oscSocket # None => oscSocket.v \notin failedSocks
          /\ (sendResult = "ok" /\ sentOn # None) => sentOn = oscSocket
          /\ sendResult = "bind_err" => (oscSocket = None /\ sentOn = None))
    /\ [][(oscSocket = None /\ query_rx' = <<>> /\ sentOn' # None)
              => (sockNew' = sockNew + 1 /\ sentOn' = Some(sockNew'))]_vars

\* After a failed send_to a later send has transmitted on a new socket.
C24_Witness ==
    /\ sendResult = "ok"
    /\ sentOn = Some(2)
    /\ failedSocks = {1}
    /\ oscOut # Some({})

(***************************************************************************)
(* Claims about the Virtual Desktop adapter (checked under SpecVd)         *)
(***************************************************************************)

\* C25: update gives the connection up exactly when it is connected, gets
\* no valid frame and the last valid frame is more than 10 s old; a later
\* update connects again as soon as the streamer's objects exist; and every
\* update that ends with the adapter disconnected, the one that gave the
\* connection up included, returns an error: Ok is returned only by a call
\* that ends connected with a valid frame.
C25_TimeoutTearsDownAndErrs ==
    /\ [](/\ vdResult = "ok" => (vdConnected /\ vdSince = 0)
          /\ (~vdConnected /\ vdResult # "none")
                => vdResult \in {"timeout", "not_connected"}
          /\ vdResult = "timeout" => (~vdConnected /\ vdSince > VD_TIMEOUT_S)
          /\ vdResult = "no_frame" => (vdConnected /\ vdSince <= VD_TIMEOUT_S)
          /\ vdResult = "not_connected" => vdBegan = "disconnected")
    /\ [][(vdConnected /\ ~vdConnected')
              => (vdResult' = "timeout" /\ vdTeardowns' = vdTeardowns + 1)]_vars
    /\ [][(~vdConnected /\ vdPeer /\ vdPeer')
              => vdConnected' \/ vdResult' = "timeout"]_vars

\* After the adapter gave a silent connection up, an update that began
\* disconnected has connected again and read a valid frame.
C25_Witness ==
    /\ vdTeardowns > 0
    /\ vdBegan = "disconnected"
    /\ vdConnected
    /\ vdResult = "ok"

(***************************************************************************)
(* Claims about the proxy adapter (checked under SpecPx)                   *)
(***************************************************************************)

\* What an update did to the host.
Restarted == pxObs.did \notin {"none", "kept"}

\* C26 as stated: the host is restarted by an update only when the
\* heartbeat was seen to stand still for more than 5 s, and an update that
\* saw it move within 5 s leaves a running child alone.
C26_Original ==
    /\ Restarted => pxObs.stale > PX_TIMEOUT_S
    /\ (pxObs.did # "none" /\ pxObs.child = "running"
          /\ pxObs.stale <= PX_TIMEOUT_S) => pxObs.did = "kept"

\* C26: an update that finds the child running, can read its status and
\* finds more than 5 s passed since it last read a changed heartbeat or
\* mapped the memory kills the child and spawns a new one; an update that
\* finds the child exited, cannot read its status or finds no child restarts
\* the host whatever the heartbeat; and an update that finds the child
\* running, can read its status and is within those 5 s leaves the child as
\* it is.
C26_RestartOnStaleHeartbeatOrDeadChild ==
    /\ [](pxObs.did = "killed_stale"
            <=> (pxObs.child = "running" /\ ~pxObs.err
                   /\ pxObs.stale > PX_TIMEOUT_S))
    /\ [](pxObs.did = "kept"
            <=> (pxObs.child = "running" /\ ~pxObs.err
                   /\ pxObs.stale <= PX_TIMEOUT_S))
    /\ [](pxObs.did = "restart_exited" <=> (pxObs.child = "exited" /\ ~pxObs.err))
    /\ [](pxObs.did = "restart_error" <=> (pxObs.child # "none" /\ pxObs.err))
    /\ [][(pxObs' # pxObs /\ pxObs'.did = "kept")
              => UNCHANGED <<pxChild, pxSpawns>>]_vars
    /\ [][(pxObs' # pxObs /\ pxObs'.did # "kept")
              => \/ pxChild' = "running" /\ pxSpawns' = pxSpawns + 1
                 \/ pxChild' = "none" /\ pxSpawns' = pxSpawns]_vars

\* The heartbeat stood still, the child was killed and a new one runs.
C26_Witness ==
    /\ pxObs.did = "killed_stale"
    /\ pxChild = "running"
    /\ pxSpawns = 2

(***************************************************************************)
(* Claims about update_calibration and its statistics (checked under       *)
(* SpecStat)                                                               *)
(***************************************************************************)

\* The step is a call of update_calibration; its arguments.
Updating == statIn'.op = "update"

Sample == statIn'.v

Factor == S_DELTA * statIn'.dt

\* |v - current_step| >= 0.15 * dt, which no sample satisfies while
\* current_step is NaN.
Differs == statP.current_step # NaN /\ Abs(Sample - statP.current_step.v) >= Factor

\* The call leaves buffer, indices and statistics as they were.
Discarded ==
    /\ statP'.data_points = statP.data_points
    /\ statP'.fixed_index = statP.fixed_index
    /\ statP'.rolling_index = statP.rolling_index
    /\ statP'.finished = statP.finished
    /\ statP'.max = statP.max
    /\ statS' = statS

\* The call wrote the sample to the slot at rolling_index and counted it.
Stored ==
    /\ statP'.data_points[statP.rolling_index + 1].v = Sample
    /\ statP'.data_points[statP.rolling_index + 1].sampled
    /\ IF statP.fixed_index < POINTS
       THEN /\ statP'.fixed_index = statP.fixed_index + 1
            /\ statS'.progress = (statP'.fixed_index * 100) \div POINTS
       ELSE /\ statP'.fixed_index = statP.fixed_index
            /\ statP'.finished

\* C27 as stated: a sample for which |v - current_step| >= 0.15 * dt does
\* not hold is discarded.
C27_Original ==
    [][(Updating /\ ~Differs) => Discarded]_vars

\* C27: update_calibration accepts a sample if and only if current_step is
\* NaN or |v - current_step| >= 0.15 * dt: an accepted sample is written to
\* the buffer and counted, and a sample that is not accepted changes neither
\* the buffer, the indices, progress nor any statistic.
C27_AcceptsIffNaNOrDiffers ==
    /\ [][(Updating /\ (statP.current_step = NaN \/ Differs)) => Stored]_vars
    /\ [][(Updating /\ ~(statP.current_step = NaN \/ Differs))
              => Discarded]_vars

\* A first sample, met with current_step NaN, was accepted.
C27_Witness ==
    /\ statIn.op = "update"
    /\ statIn.was = NaN
    /\ statIn.touched
    /\ statP.fixed_index = 1

\* floor(v / (0.15 * dt)) * (0.15 * dt); 0/0 is NaN.
Quantised(v, factor) ==
    IF factor = 0 THEN NaN ELSE Some((v \div factor) * factor)

\* C28 as stated: a sample that is not accepted leaves current_step as it
\* was.
C28_Original ==
    [][(Updating /\ ~(statP.current_step = NaN \/ Differs))
          => statP'.current_step = statP.current_step]_vars

\* C28: current_step holds the quantised value of the sample of the latest
\* call of update_calibration, accepted or not, and NaN before any call: it
\* is assigned at the end of every call.
C28_StepOfLatestSample ==
    /\ statIn.op = "update"
          => statP.current_step = Quantised(statIn.v, S_DELTA * statIn.dt)
    /\ statIn.op # "update" => statP.current_step = NaN

\* A sample of 0.1 met the step 0.15, was not accepted and moved the step
\* to 0.0.
C28_Witness ==
    /\ statIn.op = "update"
    /\ ~statIn.touched
    /\ statIn.was = Some(3)
    /\ statIn.v = 2
    /\ statP.current_step = Some(0)

\* The statistics calculate_stats keeps.
Statistics(p, st) ==
    <<st.mean, st.std_dev, st.confidence, st.max_confidence, p.max>>

\* The largest sample of the window calculate_stats looks at.
WindowMax(p) ==
    LET n == Minimum(p.fixed_index, POINTS)
    IN  CHOOSE x \in {p.data_points[i].v : i \in 1..n} :
            \A i \in 1..n : p.data_points[i].v <= x

\* C29: once fixed_index has reached POINTS, an accepted sample changes no
\* statistic while continuous is off, and while continuous is on it is
\* written to the slot at rolling_index, which moves on by one around the
\* buffer, and the statistics are computed anew (max is at least the largest
\* sample of the window).
C29_RollingOnlyWhenContinuous ==
    /\ [][(Updating /\ statP.fixed_index = POINTS
             /\ (statP.current_step = NaN \/ Differs) /\ ~config.continuous)
              => /\ Statistics(statP', statS') = Statistics(statP, statS)
                 /\ statP'.rolling_index = statP.rolling_index]_vars
    /\ [][(Updating /\ statP.fixed_index = POINTS
             /\ (statP.current_step = NaN \/ Differs) /\ config.continuous)
              => /\ statP'.data_points[statP.rolling_index + 1].v = Sample
                 /\ statP'.rolling_index = (statP.rolling_index + 1) % POINTS
                 /\ statP'.max >= WindowMax(statP')]_vars

\* The buffer is full and finished, continuous is off, and a sample was
\* accepted into its slot.
C29_Witness ==
    /\ ~config.continuous
    /\ statP.finished
    /\ statIn.op = "update"
    /\ statIn.touched
    /\ statS.confidence > 0

\* C30 as stated: no operation makes max_confidence smaller.
C30_Original ==
    [][statS'.max_confidence >= statS.max_confidence]_vars

\* C30: update_calibration never makes max_confidence smaller; clear puts
\* it back to 0.
C30_MonotoneUntilClear ==
    /\ [][Updating => statS'.max_confidence >= statS.max_confidence]_vars
    /\ [](statIn.op = "clear" => statS.max_confidence = 0)
    /\ [](statS.max_confidence \in 0..CONF_ONE)

\* Calls of update_calibration have raised max_confidence step by step.
C30_Witness ==
    /\ statIn.op = "update"
    /\ statS.max_confidence > C_DELTA
    /\ statS.max_confidence < CONF_ONE

(***************************************************************************)
(* Claims about the signals of a frame (SpecMut)                           *)
(***************************************************************************)
\* The latest step was a mutate call of an enabled mutator.
Mutated == mutObs'.ran = "enabled" /\ mutObs' # mutObs

\* C31: after every pipeline run the weight and the openness of the frame
\* lie in [0, 1], and so does the normalised pupil of each eye.
C31_OutputsWithinUnit ==
    mutObs.ran = "enabled" =>
        /\ mutOut.weight \in 0..WEIGHT_ONE
        /\ mutOut.openness \in 0..WEIGHT_ONE
        /\ \A e \in Eyes : mutOut.pupil[e] \in 0..PUPIL_ONE

\* C32 as stated: the filter is given the frame's weight, and calibration
\* samples what the filter returned.
C32_Original ==
    [][Mutated /\ config.calibration_enabled =>
          /\ mutObs'.filtered = mutIn'.weight
          /\ mutObs'.sampled = shapeFilter'.x_prev]_vars

\* C32: calibration comes first and samples the weight as the frame
\* brought it; the shape filter is given the calibrated weight and its
\* output is the frame's weight; the normalisation reads the filtered
\* diameters.
C32_CalibrationThenSmoothing ==
    [][Mutated =>
          /\ config.calibration_enabled =>
               /\ mutObs'.sampled = mutIn'.weight
               /\ mutObs'.filtered \in CalculatedValues(hasData', mutIn'.weight)
          /\ ~config.calibration_enabled => mutObs'.filtered = mutIn'.weight
          /\ mutOut'.weight \in FilterOutputs(shapeFilter, mutObs'.filtered, WeightGrid)
          /\ shapeFilter'.x_prev = mutOut'.weight
          /\ \A e \in Eyes :
               /\ mutObs'.curr[e] \in
                      FilterOutputs(pupilFilter[e], mutIn'.pupil[e], PupilGrid)
               /\ mutOut'.pupil[e] =
                      Normalised([min |-> min_pupil'[e], max |-> max_pupil'[e]],
                                 mutObs'.curr[e])]_vars

\* Calibration changed the weight of the frame and the filter changed it
\* again.
C32_Witness ==
    /\ mutObs.ran = "enabled"
    /\ config.calibration_enabled
    /\ hasData
    /\ mutObs.sampled = mutIn.weight
    /\ mutObs.filtered # mutIn.weight
    /\ mutOut.weight # mutObs.filtered

AdapterUpdated == adObs'.tick # adObs.tick

C35_SavedFieldsFinite ==
    sanOut.saved => \A f \in SavedFields : ~sanOut.json[f].null

(***************************************************************************)
(* Claims about the calibration switch (SpecCtl)                           *)
(***************************************************************************)
\* C36: with calibration disabled start_calibration and switch_profile
\* change nothing, whatever their arguments: the state stays Uncalibrated,
\* the status never reports a calibration and the profile id stays as it
\* was.
C36_DisabledControlsAreNoOps ==
    ~config.calibration_enabled =>
        /\ calibration_state = Uncalibrated
        /\ ~calibration_status
        /\ current_profile_id = "default"
        /\ \A d \in 1..DefaultDuration : start_calibration(Mutator, d) = Mutator
        /\ \A id \in ProfileIds : switch_profile(Mutator, id) = Mutator

\* With calibration disabled the consumer has taken a request and called
\* start_calibration, and the state is Uncalibrated.
C36_Witness ==
    /\ ~config.calibration_enabled
    /\ taken # None
    /\ calpc = "mutate"
    /\ calibration_state = Uncalibrated

\* C37: discovery results take effect in the order of the events that caused
\* them: an installed snapshot was fetched by a thread started after the
\* thread of every snapshot installed before it and after every removal
\* whose None was installed before it.
C37_Original ==
    \A i, j \in 1..Len(installLog) :
        (i < j /\ installLog[j].some) => installLog[j].id > installLog[i].id

\* The control surface and the consumer with the consumer's loop running:
\* while the program runs, the consumer thread takes each of its two steps
\* again and again (recv_timeout returns after 100 ms at the latest,
\* main.rs:346-353), so neither step stays enabled for ever without being
\* taken.  The requests of clients are under no such obligation.
SpecCtlFair ==
    /\ SpecCtl
    /\ WF_vars(ConsumerRequest)
    /\ WF_vars(CtlConsumerCalibrate)

\* C38: once the calibration state is Collecting it becomes Calibrated after
\* finitely many ticks of the consumer, whatever the configuration.
C38_Original ==
    (calibration_state.state = "Collecting")
        ~> (calibration_state.state = "Calibrated")

\* The notification handled in the latest step was taken up by the listener:
\* it is the first one or came DEBOUNCE_MS or more after the one accepted
\* before it.
Accepted(n) == n.gap = None \/ n.gap.v >= DEBOUNCE_MS

\* C39 as stated: the avatar-change notification handled last, with the
\* platform's url known, has started a fetch of that url.
C39_Original ==
    (lastNotif # None /\ lastNotif.v.known) => lastNotif.v.spawned

\* C39: with the url known, the notification handled last has started a
\* fetch thread, which has made no attempt yet, if the listener accepted it;
\* if it came within DEBOUNCE_MS of the one accepted before it, it started
\* none.
C39_FetchUnlessDebounced ==
    (lastNotif # None /\ lastNotif.v.known) =>
        IF Accepted(lastNotif.v)
        THEN /\ lastNotif.v.spawned
             /\ fetches # <<>>
             /\ fetches[Len(fetches)] = 0
        ELSE ~lastNotif.v.spawned

\* A second notification came 500 ms or more after an accepted one, with the
\* url known, and has started a fetch.
C39_Witness ==
    /\ lastNotif # None
    /\ lastNotif.v.known
    /\ lastNotif.v.gap # None
    /\ lastNotif.v.gap.v >= DEBOUNCE_MS
    /\ lastNotif.v.spawned
    /\ fetches = <<0>>

\* C40: the consumer and the handlers never deadlock on the shared locks:
\* no thread holds more than one of the five locks at a time, a thread
\* that holds one is not waiting for another, and so whoever waits for a
\* lock waits for threads that are free to release it.
C40_OneLockAtATime ==
    \A t \in Threads :
        /\ Cardinality(guards[t]) <= 1
        /\ guards[t] # {} => ~Blocked(t)
        /\ Blocked(t) =>
              \E u \in Threads \ {t} :
                 /\ \E g \in guards[u] : g.lock = Head(todo[t]).lock
                 /\ ~Blocked(u)
                 /\ Head(todo[u]).op = "release"

\* The consumer stands at calibration_request.write() while a call of
\* start_calibration_handler holds the write guard of the request cell.
C40_Witness ==
    /\ Blocked("consumer")
    /\ Head(todo["consumer"]).lock = "calibration_request"
    /\ \E t \in HttpTasks :
          guards[t] = {[lock |-> "calibration_request", mode |-> "write"]}

====
